---------------------------- MODULE Spec2Model ----------------------------
(***************************************************************************)
(* MiGChat chat room server: storage (src/src/storage.rs), identity        *)
(* functions and RPC handlers (src/src/server_service.rs), fan-out         *)
(* (src/src/server.rs).                                                    *)
(*                                                                         *)
(* A u64 is kept as the tuple of its 8 little-endian bytes, which is what  *)
(* to_le_bytes() yields and what the hasher and the store consume.         *)
(***************************************************************************)
EXTENDS Integers, Sequences, FiniteSets, TLC

(***************************************************************************)
(* 64-bit words                                                            *)
(***************************************************************************)
Byte == 0..255

ZERO64 == <<0, 0, 0, 0, 0, 0, 0, 0>>

\* proto.rs: the reserved "unassigned" ids
NOT_USER_ID == ZERO64
NOT_CHAT_ID == ZERO64
NOT_POST_ID == ZERO64

\* u64 from a small natural (n < 2^16)
U64(n) == <<n % 256, ((n \div 256) % 256), 0, 0, 0, 0, 0, 0>>

\* u64::to_le_bytes
to_le_bytes(x) == x

RECURSIVE XorBits(_, _, _)
XorBits(a, b, n) ==
    IF n = 0 THEN 0
    ELSE (((a % 2) + (b % 2)) % 2) + 2 * XorBits(a \div 2, b \div 2, n - 1)

\* u64::bitxor
bitxor(x, y) == [i \in 1..8 |-> XorBits(x[i], y[i], 8)]

\* u64::rotate_left(5): bit j of the result is bit (j - 5) mod 64 of x
rotate_left5(x) ==
    [i \in 1..8 |-> (x[i] % 8) * 32 + (x[IF i = 1 THEN 8 ELSE i - 1] \div 8)]

RECURSIVE ColumnSum(_, _, _, _)
ColumnSum(x, y, k, i) ==
    IF i > k THEN 0 ELSE x[i] * y[k - i + 1] + ColumnSum(x, y, k, i + 1)

RECURSIVE MulCarry(_, _, _, _)
MulCarry(x, y, k, carry) ==
    IF k > 8 THEN <<>>
    ELSE LET s == ColumnSum(x, y, k, 1) + carry
         IN  <<s % 256>> \o MulCarry(x, y, k + 1, s \div 256)

\* u64::wrapping_mul: the product modulo 2^64
wrapping_mul(x, y) == MulCarry(x, y, 1, 0)

\* u64 comparison (Ord for u64), most significant byte first
RECURSIVE LessFrom(_, _, _)
LessFrom(x, y, i) ==
    IF i = 0 THEN FALSE
    ELSE IF x[i] # y[i] THEN x[i] < y[i]
    ELSE LessFrom(x, y, i - 1)

Less64(x, y) == LessFrom(x, y, 8)

(***************************************************************************)
(* FxHasher64 (fxhash), as used by get_user_id and get_chat_id             *)
(***************************************************************************)
\* 0x517cc1b727220a95
SEED64 == <<149, 10, 34, 39, 183, 193, 124, 81>>

hash_word(hash, word) == wrapping_mul(bitxor(rotate_left5(hash), word), SEED64)

\* a native-endian (little-endian) read of the first n bytes, zero-extended
ReadWord(bytes, n) == [i \in 1..8 |-> IF i <= n THEN bytes[i] ELSE 0]

Drop(bytes, n) == SubSeq(bytes, n + 1, Len(bytes))

Tail4(hash, bytes) ==
    LET h2 == IF Len(bytes) >= 2 THEN hash_word(hash, ReadWord(bytes, 2)) ELSE hash
        b2 == IF Len(bytes) >= 2 THEN Drop(bytes, 2) ELSE bytes
    IN  IF Len(b2) >= 1 THEN hash_word(h2, ReadWord(b2, 1)) ELSE h2

Tail8(hash, bytes) ==
    IF Len(bytes) >= 4
    THEN Tail4(hash_word(hash, ReadWord(bytes, 4)), Drop(bytes, 4))
    ELSE Tail4(hash, bytes)

\* Hasher::write: whole 8-byte words, then 4, 2 and 1 bytes of the rest
RECURSIVE write64(_, _)
write64(hash, bytes) ==
    IF Len(bytes) >= 8
    THEN write64(hash_word(hash, ReadWord(bytes, 8)), Drop(bytes, 8))
    ELSE Tail8(hash, bytes)

(***************************************************************************)
(* Identity functions                                                      *)
(***************************************************************************)
get_user_id(user) == write64(write64(ZERO64, user.name), user.short_name)

RECURSIVE HashIds(_, _)
HashIds(hash, users) ==
    IF users = <<>> THEN hash
    ELSE HashIds(write64(hash, to_le_bytes(Head(users))), Tail(users))

\* rnd is the draw of new_chat_id(), used only when both inputs are empty
get_chat_id(description, users, rnd) ==
    IF description # <<>> THEN write64(ZERO64, description)
    ELSE IF users # <<>> THEN HashIds(ZERO64, users)
    ELSE rnd

\* new_post_id / new_chat_id: draw until the value is not the reserved id,
\* so the result is any draw but the reserved one
new_post_id(draws) == {v \in draws : v # NOT_POST_ID}

new_chat_id(draws) == {v \in draws : v # NOT_CHAT_ID}

\* every chat taken as visible
visible_for_all(chat, user_id) == TRUE

\* false if the chat is invisible for the user
is_chat_visible_for(chat, user_id) ==
    IF chat.description = <<>>
    THEN \E i \in 1..Len(chat.users) : chat.users[i] = user_id
    ELSE TRUE

(***************************************************************************)
(* Sequences and options                                                   *)
(***************************************************************************)
None == <<>>

Some(v) == <<v>>

Range(q) == {q[i] : i \in 1..Len(q)}

contains(q, v) == v \in Range(q)

RECURSIVE retain(_, _)
retain(q, keep) ==
    IF q = <<>> THEN <<>>
    ELSE (IF Head(q) \in keep THEN <<Head(q)>> ELSE <<>>) \o retain(Tail(q), keep)

RECURSIVE Flatten(_)
Flatten(qq) == IF qq = <<>> THEN <<>> ELSE Head(qq) \o Flatten(Tail(qq))

(***************************************************************************)
(* The store (jammdb): a bucket maps a key, a byte string, to a value and  *)
(* iterates in the byte-wise order of its keys.  A write transaction works *)
(* on its own view of the database; commit() installs the view, and a      *)
(* transaction that is dropped without commit() leaves the database as it  *)
(* was.                                                                    *)
(***************************************************************************)
BUCKET_USERS == "users"
BUCKET_CHATS == "chats"
BUCKET_POSTS == "posts"

RECURSIVE LexLessFrom(_, _, _)
LexLessFrom(a, b, i) ==
    IF i > Len(b) THEN FALSE
    ELSE IF i > Len(a) THEN TRUE
    ELSE IF a[i] # b[i] THEN a[i] < b[i]
    ELSE LexLessFrom(a, b, i + 1)

\* the order of byte strings the store keeps its keys in
LexLess(a, b) == LexLessFrom(a, b, 1)

\* the keys in that order: each key with the number of keys below it, and
\* the i-th is the key with i - 1 below it
SortKeys(keys) ==
    LET ranked == {<<Cardinality({o \in keys : LexLess(o, k)}), k>> : k \in keys}
    IN  [i \in 1..Cardinality(keys) |-> (CHOOSE p \in ranked : p[1] = i - 1)[2]]

\* Bucket::kv_pairs: the values in key order
kv_pairs(bucket) ==
    LET keys == SortKeys(DOMAIN bucket)
    IN  [i \in 1..Len(keys) |-> bucket[keys[i]]]

Put(bucket, key, value) ==
    [k \in DOMAIN bucket \cup {key} |-> IF k = key THEN value ELSE bucket[k]]

Delete(bucket, key) == [k \in DOMAIN bucket \ {key} |-> bucket[k]]

\* Tx::commit
Commit(db, tx) == tx

\* a transaction going out of scope without commit()
DropTx(db, tx) == db

EmptyBucket == [k \in {} |-> 0]

EmptyDb == [users |-> EmptyBucket, chats |-> EmptyBucket, posts |-> EmptyBucket]

read_from_db(db, bucket_name, id) ==
    IF to_le_bytes(id) \in DOMAIN db[bucket_name]
    THEN Some(db[bucket_name][to_le_bytes(id)])
    ELSE None

write_to_db(db, bucket_name, id, item) ==
    Commit(db, [db EXCEPT ![bucket_name] = Put(@, to_le_bytes(id), item)])

\* The closures handed to update_chat, as data: fn names the handler that
\* built the closure and env holds what it captured.  call(updater, item) is
\* [changed, item]: the closure's result and the item as it left it.
\* a closure that never enters the chat
create_chat_updater_skip(info, chat) == [changed |-> FALSE, item |-> chat]

\* a closure that also takes the request's permanent flag
create_chat_updater_permanent(info, chat) ==
    IF info.auto_enter /\ ~contains(chat.users, info.user_id)
    THEN [changed |-> TRUE,
          item |-> [chat EXCEPT !.users = Append(@, info.user_id),
                                !.permanent = info.permanent]]
    ELSE [changed |-> FALSE, item |-> chat]

create_chat_updater(info, chat) ==
    IF info.auto_enter /\ ~contains(chat.users, info.user_id)
    THEN [changed |-> TRUE, item |-> [chat EXCEPT !.users = Append(@, info.user_id)]]
    ELSE [changed |-> FALSE, item |-> chat]

\* a closure that stores the user in place of the users the chat holds
enter_chat_updater_replace(chat_ref, chat) ==
    IF ~contains(chat.users, chat_ref.user_id)
    THEN [changed |-> TRUE, item |-> [chat EXCEPT !.users = <<chat_ref.user_id>>]]
    ELSE [changed |-> FALSE, item |-> chat]

\* a closure that pushes the user whether or not the chat holds it
enter_chat_updater_push(chat_ref, chat) ==
    [changed |-> TRUE, item |-> [chat EXCEPT !.users = Append(@, chat_ref.user_id)]]

enter_chat_updater(chat_ref, chat) ==
    IF ~contains(chat.users, chat_ref.user_id)
    THEN [changed |-> TRUE, item |-> [chat EXCEPT !.users = Append(@, chat_ref.user_id)]]
    ELSE [changed |-> FALSE, item |-> chat]

leave_chat_updater(chat_ref, chat) ==
    IF contains(chat.users, chat_ref.user_id)
    THEN [changed |-> TRUE,
          item |-> [chat EXCEPT !.users = retain(@, Range(@) \ {chat_ref.user_id})]]
    ELSE [changed |-> FALSE, item |-> chat]

\* remove_user: users.retain(|&u| u != id); users.len() < cnt_before
remove_user_updater(id, chat) ==
    [changed |-> contains(chat.users, id),
     item |-> [chat EXCEPT !.users = retain(@, Range(@) \ {id})]]

call(updater, item) ==
    CASE updater.fn = "create_chat" -> create_chat_updater(updater.env, item)
      [] updater.fn = "enter_chat" -> enter_chat_updater(updater.env, item)
      [] updater.fn = "leave_chat" -> leave_chat_updater(updater.env, item)
      [] updater.fn = "remove_user" -> remove_user_updater(updater.env, item)

\* an update whose transaction is dropped without commit()
update_in_db_uncommitted(db, bucket_name, id, updater) ==
    IF to_le_bytes(id) \in DOMAIN db[bucket_name]
    THEN LET u == call(updater, db[bucket_name][to_le_bytes(id)])
         IN  [db |-> DropTx(db, [db EXCEPT ![bucket_name] =
                                    Put(@, to_le_bytes(id), u.item)]),
              ret |-> Some(u.item)]
    ELSE [db |-> db, ret |-> None]

\* The result is [db, ret]: ret is Some(item) or None.
update_in_db(db, bucket_name, id, updater) ==
    IF to_le_bytes(id) \in DOMAIN db[bucket_name]
    THEN LET u == call(updater, db[bucket_name][to_le_bytes(id)])
         IN  IF ~u.changed
             THEN [db |-> DropTx(db, db), ret |-> Some(u.item)]
             ELSE [db |-> Commit(db, [db EXCEPT ![bucket_name] =
                                         Put(@, to_le_bytes(id), u.item)]),
                   ret |-> Some(u.item)]
    ELSE [db |-> db, ret |-> None]

\* one write transaction over every item of the bucket, committed if the
\* updater changed any; the result is [db, ret]: ret counts the items changed
update_all_in_db(db, bucket_name, updater) ==
    LET bucket == db[bucket_name]
        changed == {k \in DOMAIN bucket : call(updater, bucket[k]).changed}
        tx == [db EXCEPT ![bucket_name] =
                 [k \in DOMAIN bucket |->
                    IF k \in changed THEN call(updater, bucket[k]).item ELSE bucket[k]]]
    IN  IF changed # {}
        THEN [db |-> Commit(db, tx), ret |-> Cardinality(changed)]
        ELSE [db |-> DropTx(db, tx), ret |-> 0]

read_all_from_db(db, bucket_name) == kv_pairs(db[bucket_name])

\* bucket.delete(id) in a write transaction that is never committed
remove_from_db(db, bucket_name, id) ==
    LET tx == [db EXCEPT ![bucket_name] = Delete(@, to_le_bytes(id))]
    IN  DropTx(db, tx)

read_user(db, id) == read_from_db(db, BUCKET_USERS, id)

write_user(db, id, user) == write_to_db(db, BUCKET_USERS, id, user)

read_all_users(db) == read_all_from_db(db, BUCKET_USERS)

read_chat(db, id) == read_from_db(db, BUCKET_CHATS, id)

write_chat(db, id, chat) == write_to_db(db, BUCKET_CHATS, id, chat)

update_chat(db, id, updater) == update_in_db(db, BUCKET_CHATS, id, updater)

read_all_chats(db) == read_all_from_db(db, BUCKET_CHATS)

\* posts_bucket.delete_bucket(id).and(tx.commit()): the commit is evaluated
\* whether or not the chat had a bucket
remove_chat_posts(db, id) ==
    Commit(db, [db EXCEPT !.posts = Delete(@, to_le_bytes(id))])

\* remove_chat_posts(id).and(remove_from_db(..)): both are evaluated
remove_chat(db, id) == remove_from_db(remove_chat_posts(db, id), BUCKET_CHATS, id)

\* a chat's bucket of posts: next_int counts the keys added so far
NewPostBucket == [next_int |-> 0, kv |-> EmptyBucket]

write_post(db, post) ==
    LET key == to_le_bytes(post.chat_id)
        chat_bucket == IF key \in DOMAIN db.posts THEN db.posts[key] ELSE NewPostBucket
        k == chat_bucket.next_int
        put == [next_int |-> k + 1, kv |-> Put(chat_bucket.kv, to_le_bytes(U64(k)), post)]
    IN  Commit(db, [db EXCEPT !.posts = Put(@, key, put)])

chat_posts_count(db, chat_id) ==
    IF to_le_bytes(chat_id) \in DOMAIN db.posts
    THEN Cardinality(DOMAIN db.posts[to_le_bytes(chat_id)].kv)
    ELSE 0

\* kv_pairs().skip(idx_from).take(count); a chat without a bucket has no posts
read_chat_posts(db, chat_id, idx_from, count) ==
    IF count = 0 \/ to_le_bytes(chat_id) \notin DOMAIN db.posts THEN <<>>
    ELSE LET all == kv_pairs(db.posts[to_le_bytes(chat_id)].kv)
             last == IF idx_from + count < Len(all) THEN idx_from + count ELSE Len(all)
         IN  SubSeq(all, idx_from + 1, last)

(***************************************************************************)
(* Inputs and bounds                                                       *)
(***************************************************************************)
\* UserInfo{name: "U1", short_name: "u1"} and so on, as bytes
INFO1 == [name |-> <<85, 49>>, short_name |-> <<117, 49>>]
INFO2 == [name |-> <<85, 50>>, short_name |-> <<117, 50>>]
INFO3 == [name |-> <<85, 51>>, short_name |-> <<117, 51>>]

\* let id = get_user_id(&user_info), computed once for the users above
user_id_of == [u \in {INFO1, INFO2, INFO3} |-> get_user_id(u)]

ID1 == user_id_of[INFO1]
ID2 == user_id_of[INFO2]
ID3 == user_id_of[INFO3]

\* the values rand::random() yields here
RandomDraws == {ZERO64, U64(7)}

Ids == {ID1, ID2, ID3}

\* descriptions: "" and "d"
Descriptions == {<<>>, <<100>>}

\* lists of up to three of the user ids
IdLists ==
    {<<>>} \cup {<<a>> : a \in Ids} \cup {<<a, b>> : a \in Ids, b \in Ids}
    \cup {<<a, b, c>> : a \in Ids, b \in Ids, c \in Ids}

\* let id = get_chat_id(&info.description, &users), computed once for the
\* descriptions and lists above
chat_id_of ==
    [d \in Descriptions, users \in IdLists, rnd \in new_chat_id(RandomDraws) |->
        get_chat_id(d, users, rnd)]

\* storage outcomes: every operation succeeds, or any may fail with an I/O error
IoOk == {"ok"}
IoAny == {"ok", "err"}

\* handler slots: one call at a time, or two calls overlapping
AllSlots == {1, 2}
SeqSlots == {1}
ConcSlots == {1, 2}

\* mpsc::channel(4)
CHANNEL_CAPACITY == 4

\* the clock stops at MaxTime
MaxTime == 1

\* calls accepted in one run of the registration scenario
MaxRegCalls == 3

(***************************************************************************)
(* State                                                                   *)
(***************************************************************************)
VARIABLES
    db,              \* Storage: the users, chats and posts buckets
    online_users,    \* ChatRoomImpl::online_users
    listeners,       \* users_listeners, chats_listeners, invitations_listeners,
                     \* posts_listeners: user id -> the stream holding the Receiver
    streams,         \* one per streaming call: its subscription channel, the
                     \* spawned task that feeds the response stream, the client
    tasks,           \* the unary handlers in flight, by slot
    now,             \* Utc::now().timestamp()
    ncalls,          \* calls accepted so far
    ret,             \* the response returned last
    hist             \* history: what calls returned, for stating the claims

vars == <<db, online_users, listeners, streams, tasks, now, ncalls, ret, hist>>

Idle == [op |-> "idle", pc |-> "", req |-> <<>>, ev |-> <<>>, list |-> <<>>,
         ok |-> TRUE, aux |-> <<>>]

NoListeners == [users |-> EmptyBucket, chats |-> EmptyBucket,
                invitations |-> EmptyBucket, posts |-> EmptyBucket]

\* seq numbers the responses, so that two equal responses in a row differ
NoRet == [seq |-> 0, op |-> "none", status |-> "none", req |-> <<>>, val |-> <<>>]

Response(op, status, req, val) ==
    [seq |-> ret.seq + 1, op |-> op, status |-> status, req |-> req, val |-> val]

\* registered: the (user_id, created) pairs register has returned
\* sessions:   per user id, register calls that returned Ok minus logout calls
\* dialogs:    create_chat calls with an empty description and auto_enter
\*             that returned Ok: the caller, the member set asked for, the id
\* described:  the same for a description that is not empty
\* left:       ids of the chats a leave_chat has taken a user out of
\* skipped:    the subscribers get_chats has kept a chat from
\* written:    the posts write_post has stored, in the order it stored them
\* posted:     per text, the create_post call that carried it: whether
\*             write_post stored it, the streams that existed when the call
\*             began and when it returned, the chat's users as the fan-out
\*             read them
NoHist == [registered |-> {}, sessions |-> EmptyBucket, dialogs |-> {},
           described |-> {}, left |-> {}, skipped |-> {}, written |-> <<>>,
           posted |-> EmptyBucket]

Count(f, k) == IF k \in DOMAIN f THEN f[k] ELSE 0

\* ChatRoomImpl::new on an empty database file
InitEmpty ==
    /\ db = EmptyDb
    /\ online_users = {}
    /\ listeners = NoListeners
    /\ streams = <<>>
    /\ tasks = [t \in AllSlots |-> Idle]
    /\ now = 0
    /\ ncalls = 0
    /\ ret = NoRet
    /\ hist = NoHist

\* the lowest free slot takes the next call
FreeSlot(t, slots, budget) ==
    /\ t \in slots
    /\ tasks[t].op = "idle"
    /\ \A o \in slots : o < t => tasks[o].op # "idle"
    /\ ncalls < budget

Tick ==
    /\ now < MaxTime
    /\ now' = now + 1
    /\ UNCHANGED <<db, online_users, listeners, streams, tasks, ncalls, ret, hist>>

(***************************************************************************)
(* Subscription channels                                                   *)
(***************************************************************************)
\* Sender::is_closed: the Receiver was dropped (the spawned task has ended)
is_closed(s) == streams[s].state = "stopped"

\* listeners.retain(|k, v| !v.is_closed())
retain_open(reg) == [u \in {k \in DOMAIN reg : ~is_closed(reg[k])} |-> reg[u]]

\* an insert that keeps the entry the user has
insert_keeps(reg, user_id, s) == IF user_id \in DOMAIN reg THEN reg ELSE Put(reg, user_id, s)

\* listeners.insert(user_id, listener)
insert(reg, user_id, s) == Put(reg, user_id, s)

\* a remove that leaves the entry in place
remove_keeps(reg, user_id) == reg

\* listeners.remove(&user_id)
remove(reg, user_id) == Delete(reg, user_id)

RECURSIVE Perms(_)
Perms(S) ==
    IF S = {} THEN {<<>>}
    ELSE UNION {{<<e>> \o q : q \in Perms(S \ {e})} : e \in S}

\* for listener in listeners.values(): the clones a broadcast takes under the
\* read lock, in the iteration order of the HashMap, which is any order
send_lists(reg) == Perms({reg[u] : u \in DOMAIN reg})

\* actualize_*_listeners: drop the entries whose channel is closed
actualize(reg) == retain_open(reg)

\* the Senders of stream s that are alive: the registry's and the clones held
\* by handlers in the middle of a fan-out
HasSender(s) ==
    \/ \E u \in DOMAIN listeners[streams[s].kind] : listeners[streams[s].kind][u] = s
    \/ \E t \in AllSlots : contains(tasks[t].list, s)

NewStream(kind, user_id, existing) ==
    [kind |-> kind, user_id |-> user_id, queue |-> <<>>, existing |-> existing,
     state |-> "run", client |-> "open", delivered |-> <<>>]

\* a fan-out that gives up at the first send that fails
Send_abort(t) ==
    /\ tasks[t].op # "idle"
    /\ tasks[t].list # <<>>
    /\ LET s == Head(tasks[t].list)
       IN  \/ /\ is_closed(s)
              /\ tasks' = [tasks EXCEPT ![t].list = <<>>, ![t].ok = FALSE]
              /\ UNCHANGED streams
           \/ /\ ~is_closed(s)
              /\ Len(streams[s].queue) < CHANNEL_CAPACITY
              /\ streams' = [streams EXCEPT ![s].queue = Append(@, tasks[t].ev)]
              /\ tasks' = [tasks EXCEPT ![t].list = Tail(@)]
    /\ UNCHANGED <<db, online_users, listeners, now, ncalls, ret, hist>>

\* tx.send(ev).await for the first clone of a fan-out: the handler waits while
\* the channel is full, and the send fails once the Receiver is gone
Send(t) ==
    /\ tasks[t].op # "idle"
    /\ tasks[t].list # <<>>
    /\ LET s == Head(tasks[t].list)
       IN  \/ /\ is_closed(s)
              /\ tasks' = [tasks EXCEPT ![t].list = Tail(@), ![t].ok = FALSE]
              /\ UNCHANGED streams
           \/ /\ ~is_closed(s)
              /\ Len(streams[s].queue) < CHANNEL_CAPACITY
              /\ streams' = [streams EXCEPT ![s].queue = Append(@, tasks[t].ev)]
              /\ tasks' = [tasks EXCEPT ![t].list = Tail(@)]
    /\ UNCHANGED <<db, online_users, listeners, now, ncalls, ret, hist>>

\* get_users: a notification as the UpdateUsers sent to subscriber user_id
translate_user_changed(notification, user_id) ==
    CASE notification.tag = "Info" ->
            [added |-> <<notification.user>>, online |-> <<notification.user.id>>,
             offline |-> <<>>]
      [] notification.tag = "Online" ->
            [added |-> <<>>, online |-> <<user_id>>, offline |-> <<>>]
      [] notification.tag = "Offline" ->
            [added |-> <<>>, online |-> <<>>, offline |-> <<user_id>>]

\* get_chats: a notification as the UpdateChats sent on
translate_chat_changed(notification) ==
    IF notification.tag = "Updated"
    THEN [updated |-> <<notification.chat>>, gone |-> <<>>]
    ELSE [updated |-> <<>>, gone |-> <<notification.id>>]

\* the spawned task sends what the handler collected before it reads the
\* channel; a failed send of these is logged and the task goes on
StreamReplay(s) ==
    /\ s \in 1..Len(streams)
    /\ streams[s].state = "run"
    /\ streams[s].existing # <<>>
    /\ streams[s].client # "stalled"
    /\ streams' = [streams EXCEPT
                     ![s].existing = Tail(@),
                     ![s].delivered =
                        IF streams[s].client = "open"
                        THEN Append(@, [live |-> FALSE, msg |-> Head(streams[s].existing)])
                        ELSE @]
    /\ UNCHANGED <<db, online_users, listeners, tasks, now, ncalls, ret, hist>>

\* while let Some(notification) = notifier.recv().await { tx.send(..) }: the
\* response stream hands the client each message as it is sent; a send to a
\* client that is gone ends the task, which drops the Receiver;
\* tx.send(..).await waits while the client has stopped reading
StreamForward(s) ==
    /\ s \in 1..Len(streams)
    /\ streams[s].state = "run"
    /\ streams[s].existing = <<>>
    /\ streams[s].queue # <<>>
    /\ LET n == Head(streams[s].queue)
           skip == /\ streams[s].kind = "chats"
                   /\ n.tag = "Updated"
                   /\ ~is_chat_visible_for(n.chat, streams[s].user_id)
           msg == CASE streams[s].kind = "users" ->
                          translate_user_changed(n, streams[s].user_id)
                    [] streams[s].kind = "chats" -> translate_chat_changed(n)
                    [] OTHER -> n
       IN  /\ streams[s].client = "stalled" => skip
           /\ IF skip
              THEN streams' = [streams EXCEPT ![s].queue = Tail(@)]
              ELSE IF streams[s].client = "open"
              THEN streams' = [streams EXCEPT
                                 ![s].queue = Tail(@),
                                 ![s].delivered = Append(@, [live |-> TRUE, msg |-> msg])]
              ELSE streams' = [streams EXCEPT ![s].queue = <<>>, ![s].state = "stopped"]
           /\ hist' = IF skip
                      THEN [hist EXCEPT !.skipped = @ \cup {streams[s].user_id}]
                      ELSE hist
    /\ UNCHANGED <<db, online_users, listeners, tasks, now, ncalls, ret>>

\* recv() yields None once the channel is empty and every Sender is dropped
StreamEnd(s) ==
    /\ s \in 1..Len(streams)
    /\ streams[s].state = "run"
    /\ streams[s].existing = <<>>
    /\ streams[s].queue = <<>>
    /\ ~HasSender(s)
    /\ streams' = [streams EXCEPT ![s].state = "stopped"]
    /\ UNCHANGED <<db, online_users, listeners, tasks, now, ncalls, ret, hist>>

\* the client drops the response stream
ClientDisconnect(s) ==
    /\ s \in 1..Len(streams)
    /\ streams[s].client = "open"
    /\ streams' = [streams EXCEPT ![s].client = "gone"]
    /\ UNCHANGED <<db, online_users, listeners, tasks, now, ncalls, ret, hist>>

\* the client keeps the connection and stops reading its response stream:
\* the response channel stays full from here on
ClientStall(s) ==
    /\ s \in 1..Len(streams)
    /\ streams[s].client = "open"
    /\ streams' = [streams EXCEPT ![s].client = "stalled"]
    /\ UNCHANGED <<db, online_users, listeners, tasks, now, ncalls, ret, hist>>

(***************************************************************************)
(* register                                                                *)
(***************************************************************************)
\* a logout in flight for user_id notes the collections user_id is put into
\* after the logout took it out of them
NoteInsert(tt, coll, user_id) ==
    [t \in AllSlots |->
        IF tt[t].op = "logout" /\ tt[t].req.user_id = user_id
        THEN [tt[t] EXCEPT !.aux = @ \cup {coll}]
        ELSE tt[t]]

\* insert into online_users, read_user, and the start of the broadcast of
\* Online (a stored user) or Info (a new one, created now)
RegisterStart(t, slots, budget, user_info, io) ==
    /\ FreeSlot(t, slots, budget)
    /\ ncalls' = ncalls + 1
    /\ LET id == user_id_of[user_info]
           opt == read_user(db, id)
           new_user == [id |-> id, name |-> user_info.name,
                        short_name |-> user_info.short_name, created |-> now]
       IN  /\ online_users' = online_users \cup {id}
           /\ IF io = "err"
              THEN /\ tasks' = NoteInsert(tasks, "online", id)
                   /\ ret' = Response("register", "Internal", user_info, <<>>)
              ELSE /\ \E list \in send_lists(listeners.users) :
                        tasks' = [NoteInsert(tasks, "online", id) EXCEPT ![t] =
                            IF opt # None
                            THEN [op |-> "register", pc |-> "online", req |-> user_info,
                                  ev |-> [tag |-> "Online", id |-> opt[1].id],
                                  list |-> list, ok |-> TRUE, aux |-> opt[1]]
                            ELSE [op |-> "register", pc |-> "info", req |-> user_info,
                                  ev |-> [tag |-> "Info", user |-> new_user],
                                  list |-> list, ok |-> TRUE, aux |-> new_user]]
                   /\ UNCHANGED ret
    /\ UNCHANGED <<db, listeners, streams, now, hist>>

\* after the broadcast: actualize_user_listeners if a send failed, write_user
\* for a new user, and the response
RegisterFinish(t, io) ==
    /\ tasks[t].op = "register"
    /\ tasks[t].list = <<>>
    /\ listeners' = IF tasks[t].ok THEN listeners
                    ELSE [listeners EXCEPT !.users = actualize(@)]
    /\ LET user == tasks[t].aux
           info == [user_id |-> user.id, created |-> user.created]
       IN  IF tasks[t].pc = "info" /\ io = "err"
           THEN /\ ret' = Response("register", "Internal", tasks[t].req, <<>>)
                /\ UNCHANGED <<db, hist>>
           ELSE /\ db' = IF tasks[t].pc = "info" THEN write_user(db, user.id, user)
                         ELSE db
                /\ ret' = Response("register", "Ok", tasks[t].req, info)
                /\ hist' = [hist EXCEPT
                              !.registered = @ \cup {info},
                              !.sessions = Put(@, user.id, Count(@, user.id) + 1)]
    /\ tasks' = [tasks EXCEPT ![t] = Idle]
    /\ UNCHANGED <<online_users, streams, now, ncalls>>

(***************************************************************************)
(* logout                                                                  *)
(***************************************************************************)
\* a logout that turns down a user that is not online
LogoutStart_checked(t, slots, budget, user_id) ==
    /\ FreeSlot(t, slots, budget)
    /\ ncalls' = ncalls + 1
    /\ IF user_id \in online_users
       THEN /\ listeners' = [users |-> remove(listeners.users, user_id),
                             chats |-> remove(listeners.chats, user_id),
                             invitations |-> remove(listeners.invitations, user_id),
                             posts |-> remove(listeners.posts, user_id)]
            /\ online_users' = online_users \ {user_id}
            /\ \E list \in send_lists(listeners'.users) :
                  tasks' = [tasks EXCEPT ![t] =
                      [op |-> "logout", pc |-> "offline", req |-> [user_id |-> user_id],
                       ev |-> [tag |-> "Offline", id |-> user_id],
                       list |-> list, ok |-> TRUE, aux |-> {}]]
            /\ UNCHANGED ret
       ELSE /\ ret' = Response("logout", "NotFound", [user_id |-> user_id],
                               [reinserted |-> {}, again |-> FALSE])
            /\ UNCHANGED <<listeners, online_users, tasks>>
    /\ UNCHANGED <<db, streams, now, hist>>

\* remove the user from the four registries and from online_users, and the
\* start of the broadcast of Offline
LogoutStart(t, slots, budget, user_id) ==
    /\ FreeSlot(t, slots, budget)
    /\ ncalls' = ncalls + 1
    /\ listeners' = [users |-> remove(listeners.users, user_id),
                     chats |-> remove(listeners.chats, user_id),
                     invitations |-> remove(listeners.invitations, user_id),
                     posts |-> remove(listeners.posts, user_id)]
    /\ online_users' = online_users \ {user_id}
    /\ \E list \in send_lists(listeners'.users) :
          tasks' = [tasks EXCEPT ![t] =
              [op |-> "logout", pc |-> "offline", req |-> [user_id |-> user_id],
               ev |-> [tag |-> "Offline", id |-> user_id],
               list |-> list, ok |-> TRUE, aux |-> {}]]
    /\ hist' = [hist EXCEPT !.sessions =
                  IF Count(@, user_id) > 0 THEN Put(@, user_id, @[user_id] - 1) ELSE @]
    /\ UNCHANGED <<db, streams, now, ret>>

\* after the broadcast: actualize_user_listeners if a send failed, and the
\* response, here with the collections the user was put back into meanwhile
\* and whether the response before it was to a logout of the same user
LogoutFinish(t) ==
    /\ tasks[t].op = "logout"
    /\ tasks[t].list = <<>>
    /\ listeners' = IF tasks[t].ok THEN listeners
                    ELSE [listeners EXCEPT !.users = actualize(@)]
    /\ ret' = Response("logout", "Ok", tasks[t].req,
                       [reinserted |-> tasks[t].aux,
                        again |-> ret.op = "logout" /\ ret.req = tasks[t].req])
    /\ tasks' = [tasks EXCEPT ![t] = Idle]
    /\ UNCHANGED <<db, online_users, streams, now, ncalls, hist>>

(***************************************************************************)
(* get_users, get_chats, get_invitations, get_posts                        *)
(***************************************************************************)
\* Each handler puts the Sender of a new channel into its registry, collects
\* what is stored, and spawns the task that feeds the response stream.
\* a get_users that takes the users of the presence set for offline
GetUsers_swapped(t, slots, budget, user_id, io) ==
    /\ FreeSlot(t, slots, budget)
    /\ ncalls' = ncalls + 1
    /\ LET s == Len(streams) + 1
           all == IF io = "ok" THEN read_all_users(db) ELSE <<>>
           existing == retain(all, {u \in Range(all) : u.id # user_id})
           ids == [i \in 1..Len(existing) |-> existing[i].id]
           start_update == [added |-> existing,
                            online |-> retain(ids, Range(ids) \ online_users),
                            offline |-> retain(ids, online_users)]
       IN  /\ listeners' = [listeners EXCEPT
                              !.users = insert(retain_open(@), user_id, s)]
           /\ streams' = Append(streams,
                  NewStream("users", user_id,
                            IF existing # <<>> THEN <<start_update>> ELSE <<>>))
    /\ tasks' = NoteInsert(tasks, "users", user_id)
    /\ ret' = Response("get_users", "Ok", [user_id |-> user_id], <<>>)
    /\ UNCHANGED <<db, online_users, now, hist>>

GetUsers(t, slots, budget, user_id, io) ==
    /\ FreeSlot(t, slots, budget)
    /\ ncalls' = ncalls + 1
    /\ LET s == Len(streams) + 1
           all == IF io = "ok" THEN read_all_users(db) ELSE <<>>
           existing == retain(all, {u \in Range(all) : u.id # user_id})
           ids == [i \in 1..Len(existing) |-> existing[i].id]
           start_update == [added |-> existing,
                            online |-> retain(ids, online_users),
                            offline |-> retain(ids, Range(ids) \ online_users)]
       IN  /\ listeners' = [listeners EXCEPT
                              !.users = insert(retain_open(@), user_id, s)]
           /\ streams' = Append(streams,
                  NewStream("users", user_id,
                            IF existing # <<>> THEN <<start_update>> ELSE <<>>))
    /\ tasks' = NoteInsert(tasks, "users", user_id)
    /\ ret' = Response("get_users", "Ok", [user_id |-> user_id], <<>>)
    /\ UNCHANGED <<db, online_users, now, hist>>

GetChats(t, slots, budget, user_id, io) ==
    /\ FreeSlot(t, slots, budget)
    /\ ncalls' = ncalls + 1
    /\ LET s == Len(streams) + 1
           all == IF io = "ok" THEN read_all_chats(db) ELSE <<>>
           existing == retain(all, {c \in Range(all) : is_chat_visible_for(c, user_id)})
           start_update == [updated |-> existing, gone |-> <<>>]
       IN  /\ listeners' = [listeners EXCEPT !.chats = insert(@, user_id, s)]
           /\ streams' = Append(streams,
                  NewStream("chats", user_id,
                            IF existing # <<>> THEN <<start_update>> ELSE <<>>))
           /\ hist' = IF Len(existing) < Len(all)
                      THEN [hist EXCEPT !.skipped = @ \cup {user_id}]
                      ELSE hist
    /\ tasks' = NoteInsert(tasks, "chats", user_id)
    /\ ret' = Response("get_chats", "Ok", [user_id |-> user_id], <<>>)
    /\ UNCHANGED <<db, online_users, now>>

GetInvitations(t, slots, budget, user_id) ==
    /\ FreeSlot(t, slots, budget)
    /\ ncalls' = ncalls + 1
    /\ listeners' = [listeners EXCEPT
                       !.invitations = insert(retain_open(@), user_id, Len(streams) + 1)]
    /\ streams' = Append(streams, NewStream("invitations", user_id, <<>>))
    /\ tasks' = NoteInsert(tasks, "invitations", user_id)
    /\ ret' = Response("get_invitations", "Ok", [user_id |-> user_id], <<>>)
    /\ UNCHANGED <<db, online_users, now, hist>>

\* no replay
existing_posts_none(d, user_id) == <<>>

\* the posts of the chats the user is a member of, chat by chat
existing_posts(d, user_id) ==
    LET chats == read_all_chats(d)
        mine == retain(chats, {c \in Range(chats) : contains(c.users, user_id)})
    IN  Flatten([i \in 1..Len(mine) |->
                    read_chat_posts(d, mine[i].id, 0, chat_posts_count(d, mine[i].id))])

GetPosts(t, slots, budget, user_id, io) ==
    /\ FreeSlot(t, slots, budget)
    /\ ncalls' = ncalls + 1
    /\ listeners' = [listeners EXCEPT !.posts = insert(@, user_id, Len(streams) + 1)]
    /\ streams' = Append(streams,
           NewStream("posts", user_id,
                     IF io = "ok" THEN existing_posts(db, user_id) ELSE <<>>))
    /\ tasks' = NoteInsert(tasks, "posts", user_id)
    /\ ret' = Response("get_posts", "Ok", [user_id |-> user_id], <<>>)
    /\ UNCHANGED <<db, online_users, now, hist>>

(***************************************************************************)
(* create_chat                                                             *)
(***************************************************************************)
RECURSIVE SortIds(_)
SortIds(S) ==
    IF S = {} THEN <<>>
    ELSE LET m == CHOOSE k \in S : \A o \in S \ {k} : Less64(k, o)
         IN  <<m>> \o SortIds(S \ {m})

\* the caller followed by the desired users, as the request lists them
create_chat_users_unsorted(info) ==
    IF info.auto_enter THEN <<info.user_id>> \o info.desired_users ELSE <<>>

\* let users = ..: with auto_enter the caller and the desired users through a
\* BTreeSet, which drops duplicates and yields ascending order
create_chat_users(info) ==
    IF info.auto_enter
    THEN SortIds({info.user_id} \cup Range(info.desired_users))
    ELSE <<>>

Task(op, pc, req, ev, list, aux) ==
    [op |-> op, pc |-> pc, req |-> req, ev |-> ev, list |-> list, ok |-> TRUE,
     aux |-> aux]

Updated(chat) == [tag |-> "Updated", chat |-> chat]

Closed(id) == [tag |-> "Closed", id |-> id]

\* update_chat: an existing chat is entered if asked and its Updated is
\* broadcast; for a chat that does not exist the handler goes on to write it
CreateChatStart(t, slots, budget, info, rnd, io) ==
    /\ FreeSlot(t, slots, budget)
    /\ ncalls' = ncalls + 1
    /\ LET users == create_chat_users(info)
           id == chat_id_of[info.description, users, rnd]
           upd == update_chat(db, id, [fn |-> "create_chat", env |-> info])
       IN  IF io = "err"
           THEN /\ ret' = Response("create_chat", "Internal", info, <<>>)
                /\ UNCHANGED <<db, tasks>>
           ELSE /\ db' = upd.db
                /\ UNCHANGED ret
                /\ IF upd.ret # None
                   THEN \E list \in send_lists(listeners.chats) :
                           tasks' = [tasks EXCEPT ![t] =
                               Task("create_chat", "notify", info,
                                    Updated(upd.ret[1]), list, upd.ret[1])]
                   ELSE tasks' = [tasks EXCEPT ![t] =
                            Task("create_chat", "write", info, <<>>, <<>>,
                                 [id |-> id, users |-> users])]
    /\ UNCHANGED <<online_users, listeners, streams, now, hist>>

\* Ok(None): the new Chat, write_chat, and the start of the broadcast of Updated
CreateChatWrite(t, io) ==
    /\ tasks[t].op = "create_chat"
    /\ tasks[t].pc = "write"
    /\ LET info == tasks[t].req
           chat == [id |-> tasks[t].aux.id, permanent |-> info.permanent,
                    description |-> info.description, users |-> tasks[t].aux.users,
                    created |-> now]
       IN  IF io = "err"
           THEN /\ ret' = Response("create_chat", "Internal", info, <<>>)
                /\ tasks' = [tasks EXCEPT ![t] = Idle]
                /\ UNCHANGED db
           ELSE /\ db' = write_chat(db, chat.id, chat)
                /\ \E list \in send_lists(listeners.chats) :
                      tasks' = [tasks EXCEPT ![t] =
                          Task("create_chat", "notify", info, Updated(chat), list, chat)]
                /\ UNCHANGED ret
    /\ UNCHANGED <<online_users, listeners, streams, now, ncalls, hist>>

\* after the broadcast: actualize_chat_listeners if a send failed, and the chat
\* as the response
CreateChatFinish(t) ==
    /\ tasks[t].op = "create_chat"
    /\ tasks[t].pc = "notify"
    /\ tasks[t].list = <<>>
    /\ listeners' = IF tasks[t].ok THEN listeners
                    ELSE [listeners EXCEPT !.chats = actualize(@)]
    /\ ret' = Response("create_chat", "Ok", tasks[t].req, tasks[t].aux)
    /\ LET info == tasks[t].req
           made == [user_id |-> info.user_id,
                    members |-> {info.user_id} \cup Range(info.desired_users),
                    description |-> info.description, id |-> tasks[t].aux.id]
       IN  hist' = IF ~info.auto_enter THEN hist
                   ELSE IF info.description = <<>>
                   THEN [hist EXCEPT !.dialogs = @ \cup {made}]
                   ELSE [hist EXCEPT !.described = @ \cup {made}]
    /\ tasks' = [tasks EXCEPT ![t] = Idle]
    /\ UNCHANGED <<db, online_users, streams, now, ncalls>>

(***************************************************************************)
(* enter_chat                                                              *)
(***************************************************************************)
EnterChatStart(t, slots, budget, chat_ref, io) ==
    /\ FreeSlot(t, slots, budget)
    /\ ncalls' = ncalls + 1
    /\ LET upd == update_chat(db, chat_ref.chat_id,
                              [fn |-> "enter_chat", env |-> chat_ref])
       IN  IF io = "err"
           THEN /\ ret' = Response("enter_chat", "Internal", chat_ref, <<>>)
                /\ UNCHANGED <<db, tasks>>
           ELSE IF upd.ret = None
           THEN /\ ret' = Response("enter_chat", "NotFound", chat_ref, <<>>)
                /\ UNCHANGED <<db, tasks>>
           ELSE /\ db' = upd.db
                /\ \E list \in send_lists(listeners.chats) :
                      tasks' = [tasks EXCEPT ![t] =
                          Task("enter_chat", "notify", chat_ref,
                               Updated(upd.ret[1]), list, upd.ret[1])]
                /\ UNCHANGED ret
    /\ UNCHANGED <<online_users, listeners, streams, now, hist>>

EnterChatFinish(t) ==
    /\ tasks[t].op = "enter_chat"
    /\ tasks[t].list = <<>>
    /\ listeners' = IF tasks[t].ok THEN listeners
                    ELSE [listeners EXCEPT !.chats = actualize(@)]
    /\ ret' = Response("enter_chat", "Ok", tasks[t].req, tasks[t].aux)
    /\ tasks' = [tasks EXCEPT ![t] = Idle]
    /\ UNCHANGED <<db, online_users, streams, now, ncalls, hist>>

(***************************************************************************)
(* leave_chat                                                              *)
(***************************************************************************)
\* update_chat and the start of the first broadcast of Updated; the handler
\* keeps the chat as updated, and here also whether the user was in it and
\* whether remove_chat was called and reported no error
LeaveChatStart(t, slots, budget, chat_ref, io) ==
    /\ FreeSlot(t, slots, budget)
    /\ ncalls' = ncalls + 1
    /\ LET upd == update_chat(db, chat_ref.chat_id,
                              [fn |-> "leave_chat", env |-> chat_ref])
       IN  IF io = "err"
           THEN /\ ret' = Response("leave_chat", "Internal", chat_ref, <<>>)
                /\ UNCHANGED <<db, tasks, hist>>
           ELSE IF upd.ret = None
           THEN /\ ret' = Response("leave_chat", "NotFound", chat_ref, <<>>)
                /\ UNCHANGED <<db, tasks, hist>>
           ELSE /\ db' = upd.db
                /\ \E list \in send_lists(listeners.chats) :
                      tasks' = [tasks EXCEPT ![t] =
                          Task("leave_chat", "updated", chat_ref,
                               Updated(upd.ret[1]), list,
                               [chat |-> upd.ret[1], left |-> upd.db # db,
                                removed |-> FALSE])]
                /\ hist' = IF upd.db # db
                           THEN [hist EXCEPT !.left = @ \cup {chat_ref.chat_id}]
                           ELSE hist
                /\ UNCHANGED ret
    /\ UNCHANGED <<online_users, listeners, streams, now>>

\* after the first broadcast: a chat that is not permanent and has no users
\* left is removed and Closed is broadcast, any other is broadcast once more;
\* a failure of remove_chat is only logged
LeaveChatClose(t, io) ==
    /\ tasks[t].op = "leave_chat"
    /\ tasks[t].pc = "updated"
    /\ tasks[t].list = <<>>
    /\ listeners' = IF tasks[t].ok THEN listeners
                    ELSE [listeners EXCEPT !.chats = actualize(@)]
    /\ LET updated_chat == tasks[t].aux.chat
           gone == ~updated_chat.permanent /\ updated_chat.users = <<>>
       IN  /\ db' = IF gone /\ io = "ok"
                    THEN remove_chat(db, tasks[t].req.chat_id)
                    ELSE db
           /\ \E list \in send_lists(listeners'.chats) :
                 tasks' = [tasks EXCEPT ![t] =
                     Task("leave_chat", "final", tasks[t].req,
                          IF gone THEN Closed(tasks[t].req.chat_id)
                          ELSE Updated(updated_chat),
                          list, [tasks[t].aux EXCEPT !.removed = gone /\ io = "ok"])]
    /\ UNCHANGED <<online_users, streams, now, ncalls, ret, hist>>

LeaveChatFinish(t) ==
    /\ tasks[t].op = "leave_chat"
    /\ tasks[t].pc = "final"
    /\ tasks[t].list = <<>>
    /\ listeners' = IF tasks[t].ok THEN listeners
                    ELSE [listeners EXCEPT !.chats = actualize(@)]
    /\ ret' = Response("leave_chat", "Ok", tasks[t].req, tasks[t].aux)
    /\ tasks' = [tasks EXCEPT ![t] = Idle]
    /\ UNCHANGED <<db, online_users, streams, now, ncalls, hist>>

(***************************************************************************)
(* create_post                                                             *)
(***************************************************************************)
\* the users of the post's chat but for the author of the post
post_recipients_but_author(d, post) ==
    LET chat == read_from_db(d, BUCKET_CHATS, post.chat_id)
    IN  IF chat # None
        THEN retain(chat[1].users, Range(chat[1].users) \ {post.user_id})
        ELSE <<>>

\* notify_new_post: the users of the post's chat, none if it cannot be read
post_recipients(d, post) ==
    LET chat == read_from_db(d, BUCKET_CHATS, post.chat_id)
    IN  IF chat # None THEN chat[1].users ELSE <<>>

\* the Senders of every subscriber, in key order
post_send_list_all(users, reg) ==
    LET keys == SortKeys(DOMAIN reg)
    IN  [i \in 1..Len(keys) |-> reg[keys[i]]]

\* notify_new_post: the Senders of the recipients that subscribed, in the
\* order of the chat's users
post_send_list(users, reg) ==
    LET subscribed == retain(users, DOMAIN reg)
    IN  [i \in 1..Len(subscribed) |-> reg[subscribed[i]]]

\* an id check that lets every post through
post_id_unchecked(post) == FALSE

\* if post.id != NOT_POST_ID
post_id_is_set(post) == post.id # NOT_POST_ID

\* the id check, new_post_id, the timestamp and write_post, whose failure is
\* only logged
CreatePostStart(t, slots, budget, request, io) ==
    /\ FreeSlot(t, slots, budget)
    /\ ncalls' = ncalls + 1
    /\ IF post_id_is_set(request)
       THEN /\ ret' = Response("create_post", "InvalidArgument", request, <<>>)
            /\ UNCHANGED <<db, tasks, hist>>
       ELSE /\ \E id \in new_post_id(RandomDraws) :
                 LET post == [request EXCEPT !.id = id, !.created = now]
                 IN  /\ db' = IF io = "ok" THEN write_post(db, post) ELSE db
                     /\ tasks' = [tasks EXCEPT ![t] =
                            Task("create_post", "written", request, post, <<>>, <<>>)]
                     /\ hist' = [hist EXCEPT
                           !.written = IF io = "ok" THEN Append(@, post) ELSE @,
                           !.posted = Put(@, request.text,
                              [request |-> request,
                               stored |-> io = "ok", opened |-> Len(streams),
                               fanned |-> FALSE, users |-> {}, returned |-> FALSE,
                               closed |-> 0])]
            /\ UNCHANGED ret
    /\ UNCHANGED <<online_users, listeners, streams, now>>

\* notify_new_post up to its first send: the chat's users and the clones of
\* their Senders
CreatePostNotify(t) ==
    /\ tasks[t].op = "create_post"
    /\ tasks[t].pc = "written"
    /\ LET users == post_recipients(db, tasks[t].ev)
       IN  /\ tasks' = [tasks EXCEPT
                          ![t].pc = "send",
                          ![t].list = post_send_list(users, listeners.posts)]
           /\ hist' = [hist EXCEPT
                         !.posted[tasks[t].req.text].fanned = TRUE,
                         !.posted[tasks[t].req.text].users = Range(users)]
    /\ UNCHANGED <<db, online_users, listeners, streams, now, ncalls, ret>>

CreatePostFinish(t) ==
    /\ tasks[t].op = "create_post"
    /\ tasks[t].pc = "send"
    /\ tasks[t].list = <<>>
    /\ listeners' = IF tasks[t].ok THEN listeners
                    ELSE [listeners EXCEPT !.posts = actualize(@)]
    /\ ret' = Response("create_post", "Ok", tasks[t].req, <<>>)
    /\ hist' = [hist EXCEPT
                  !.posted[tasks[t].req.text].returned = TRUE,
                  !.posted[tasks[t].req.text].closed = Len(streams)]
    /\ tasks' = [tasks EXCEPT ![t] = Idle]
    /\ UNCHANGED <<db, online_users, streams, now, ncalls>>

(***************************************************************************)
(* invite_user                                                             *)
(***************************************************************************)
\* a lookup that falls back on another subscriber's channel
get_or_any(reg, user_id) ==
    IF user_id \in DOMAIN reg THEN Some(reg[user_id])
    ELSE IF DOMAIN reg # {} THEN Some(reg[CHOOSE u \in DOMAIN reg : TRUE])
    ELSE None

\* listeners.get(&user_id)
get(reg, user_id) == IF user_id \in DOMAIN reg THEN Some(reg[user_id]) ELSE None

\* read_chat, read_user, the lookup of the recipient's Sender, and the start
\* of the send of the invitation on its clone
InviteUserStart(t, slots, budget, invitation, io) ==
    /\ FreeSlot(t, slots, budget)
    /\ ncalls' = ncalls + 1
    /\ LET tx == get(listeners.invitations, invitation.to_user_id)
       IN  IF io = "err"
           THEN /\ ret' = Response("invite_user", "Internal", invitation,
                                   "failed read")
                /\ UNCHANGED tasks
           ELSE IF read_chat(db, invitation.chat_id) = None
           THEN /\ ret' = Response("invite_user", "NotFound", invitation,
                                   "chat does not exist")
                /\ UNCHANGED tasks
           ELSE IF read_user(db, invitation.to_user_id) = None
           THEN /\ ret' = Response("invite_user", "NotFound", invitation,
                                   "user is not registered")
                /\ UNCHANGED tasks
           ELSE IF tx = None
           THEN /\ ret' = Response("invite_user", "NotFound", invitation,
                                   "did not subscribe to invitations")
                /\ UNCHANGED tasks
           ELSE /\ tasks' = [tasks EXCEPT ![t] =
                       Task("invite_user", "send", invitation, invitation,
                            <<tx[1]>>, <<>>)]
                /\ UNCHANGED ret
    /\ UNCHANGED <<db, online_users, listeners, streams, now, hist>>

\* after tx.send(invitation).await
InviteUserFinish(t) ==
    /\ tasks[t].op = "invite_user"
    /\ tasks[t].list = <<>>
    /\ ret' = IF tasks[t].ok
              THEN Response("invite_user", "Ok", tasks[t].req,
                            "invitation has been sent")
              ELSE Response("invite_user", "Internal", tasks[t].req,
                            "failed to send invitation")
    /\ tasks' = [tasks EXCEPT ![t] = Idle]
    /\ UNCHANGED <<db, online_users, listeners, streams, now, ncalls, hist>>

(***************************************************************************)
(* remove_user                                                             *)
(***************************************************************************)
\* update_all_in_db over the chats, the first of the two transactions; the
\* handler keeps whether it failed
RemoveUserStart(t, slots, budget, id, io) ==
    /\ FreeSlot(t, slots, budget)
    /\ ncalls' = ncalls + 1
    /\ db' = IF io = "ok"
             THEN update_all_in_db(db, BUCKET_CHATS,
                                   [fn |-> "remove_user", env |-> id]).db
             ELSE db
    /\ tasks' = [tasks EXCEPT ![t] =
                    Task("remove_user", "purged", [user_id |-> id], <<>>, <<>>,
                         [purge |-> io])]
    /\ UNCHANGED <<online_users, listeners, streams, now, ret, hist>>

\* .and(remove_from_db(BUCKET_USERS, id)), the second transaction: the
\* result is the first error, and delete() fails for a key that is not there
RemoveUserFinish(t, io) ==
    /\ tasks[t].op = "remove_user"
    /\ LET id == tasks[t].req.user_id
           found == to_le_bytes(id) \in DOMAIN db.users
       IN  /\ db' = IF io = "ok" /\ found
                    THEN remove_from_db(db, BUCKET_USERS, id)
                    ELSE db
           /\ ret' = Response("remove_user",
                              IF tasks[t].aux.purge = "ok" /\ io = "ok" /\ found
                              THEN "Ok" ELSE "Internal",
                              tasks[t].req, <<>>)
    /\ tasks' = [tasks EXCEPT ![t] = Idle]
    /\ UNCHANGED <<online_users, listeners, streams, now, ncalls, hist>>

(***************************************************************************)
(* Registration scenario: an empty server; U1 and U2 register, subscribe   *)
(* and log out, two calls at a time, and storage may fail.                 *)
(***************************************************************************)
RegInfos == {INFO1, INFO2}

RegIds == {ID1, ID2}

NextReg ==
    \/ Tick
    \/ \E t \in ConcSlots : Send(t)
    \/ \E s \in 1..Len(streams) : StreamReplay(s)
    \/ \E s \in 1..Len(streams) : StreamForward(s)
    \/ \E s \in 1..Len(streams) : StreamEnd(s)
    \/ \E t \in ConcSlots, u \in RegInfos, io \in IoAny :
          RegisterStart(t, ConcSlots, MaxRegCalls, u, io)
    \/ \E t \in ConcSlots, io \in IoAny : RegisterFinish(t, io)
    \/ \E t \in ConcSlots, u \in RegIds : LogoutStart(t, ConcSlots, MaxRegCalls, u)
    \/ \E t \in ConcSlots : LogoutFinish(t)
    \/ \E t \in ConcSlots, u \in RegIds, io \in IoAny :
          GetUsers(t, ConcSlots, MaxRegCalls, u, io)
    \/ \E t \in ConcSlots, u \in RegIds, io \in IoAny :
          GetChats(t, ConcSlots, MaxRegCalls, u, io)
    \/ \E t \in ConcSlots, u \in RegIds : GetInvitations(t, ConcSlots, MaxRegCalls, u)
    \/ \E t \in ConcSlots, u \in RegIds, io \in IoAny :
          GetPosts(t, ConcSlots, MaxRegCalls, u, io)

SpecReg == InitEmpty /\ [][NextReg]_vars

(***************************************************************************)
(* Claims on the registration scenario                                     *)
(***************************************************************************)
\* a response was returned in this step
Returned(op) == ret'.seq # ret.seq /\ ret'.op = op

\* C1: any two register calls of one UserInfo that succeed return the same
\* user_id and the same created, and the stored User keeps that created.
C1_RegisterSameCreated ==
    \A a \in hist.registered :
        /\ \A b \in hist.registered : a.user_id = b.user_id => a.created = b.created
        /\ read_user(db, a.user_id) # None =>
              read_user(db, a.user_id)[1].created = a.created

\* no register or logout of the user is in flight
Settled(user_id) ==
    \A t \in AllSlots :
        /\ tasks[t].op = "register" => user_id_of[tasks[t].req] # user_id
        /\ tasks[t].op = "logout" => tasks[t].req.user_id # user_id

\* C2: the presence set contains user_id iff some session has completed
\* register for it and has not issued a matching logout since (stated for the
\* users no register or logout is in flight for).
C2_PresenceIffSession ==
    \A u \in RegIds :
        Settled(u) => (u \in online_users <=> Count(hist.sessions, u) > 0)

\* user_id is in the collection after the step
InCollection(coll, user_id) ==
    IF coll = "online" THEN user_id \in online_users'
    ELSE user_id \in DOMAIN listeners'[coll]

Collections == {"online", "users", "chats", "invitations", "posts"}

\* C3 as stated: when logout(u) returns, u is neither in the presence set nor
\* in any of the four registries.
C3_LogoutClears ==
    [][Returned("logout") =>
          \A c \in Collections : ~InCollection(c, ret'.req.user_id)]_vars

\* C3 as amended: when logout(u) returns, u is in the presence set or in a
\* registry only where a register(u) or get_*(u) call that overlapped the
\* logout put u back after the logout had taken it out.
C3_LogoutClearsUnlessReinserted ==
    [][Returned("logout") =>
          \A c \in Collections :
              InCollection(c, ret'.req.user_id) => c \in ret'.val.reinserted]_vars

\* a logout of a registered user has returned with nothing put back meanwhile,
\* and a channel the user had subscribed with has lost its Sender
C3_Witness ==
    /\ ret.op = "logout"
    /\ ret.val.reinserted = {}
    /\ \E a \in hist.registered : a.user_id = ret.req.user_id
    /\ \E s \in 1..Len(streams) :
          streams[s].user_id = ret.req.user_id /\ ~HasSender(s)

\* C26: what a get_users or get_chats stream hands its client begins with
\* one snapshot message, and only then come live deltas.
C26_OneSnapshotFirst ==
    \A s \in 1..Len(streams) :
        streams[s].kind \in {"users", "chats"} /\ streams[s].delivered # <<>>
        => /\ ~streams[s].delivered[1].live
           /\ \A i \in 2..Len(streams[s].delivered) : streams[s].delivered[i].live

\* C35: when register sends the Info of a new user into the channel of a
\* get_users stream, the record of that user is in storage; so a get_users
\* of another user either finds the record for its snapshot or is in the
\* registry before the broadcast takes its channels.
C35_WrittenBeforeNotified ==
    [][\A t \in ConcSlots : \A s \in 1..Len(streams) :
          /\ tasks[t].op = "register"
          /\ tasks[t].ev.tag = "Info"
          /\ streams'[s].queue = Append(streams[s].queue, tasks[t].ev)
          => read_user(db, tasks[t].ev.user.id) = Some(tasks[t].ev.user)]_vars

(***************************************************************************)
(* Chat scenario: U1, U2 and U3 have registered; they create, enter and    *)
(* leave chats and subscribe to chats, one call at a time, and storage may *)
(* fail.                                                                   *)
(***************************************************************************)
\* calls accepted in one run of the chat scenario
MaxChatCalls == 3

\* the User register stores for user_info at time 0
Registered(user_info) ==
    [id |-> user_id_of[user_info], name |-> user_info.name,
     short_name |-> user_info.short_name, created |-> 0]

RegisteredDb ==
    write_user(write_user(write_user(EmptyDb, ID1, Registered(INFO1)),
                          ID2, Registered(INFO2)),
               ID3, Registered(INFO3))

\* the state after register(U1), register(U2) and register(U3)
InitRegistered ==
    /\ db = RegisteredDb
    /\ online_users = Ids
    /\ listeners = NoListeners
    /\ streams = <<>>
    /\ tasks = [t \in AllSlots |-> Idle]
    /\ now = 0
    /\ ncalls = 0
    /\ ret = NoRet
    /\ hist = [NoHist EXCEPT
                 !.registered = {[user_id |-> u, created |-> 0] : u \in Ids},
                 !.sessions = [u \in Ids |-> 1]]

ChatInfo(user_id, description, permanent, auto_enter, desired_users) ==
    [user_id |-> user_id, description |-> description, permanent |-> permanent,
     auto_enter |-> auto_enter, desired_users |-> desired_users]

\* dialogs of U1 and U2, asked for by either, the other listed once, twice or
\* along with the caller
DialogInfos ==
    {ChatInfo(ID1, <<>>, FALSE, TRUE, d) : d \in {<<ID2>>, <<ID2, ID2>>, <<ID2, ID1>>}}
    \cup {ChatInfo(ID2, <<>>, FALSE, TRUE, d) : d \in {<<ID1>>, <<ID1, ID1>>, <<ID2, ID1>>}}

\* the chat "d", entered on creation or not, permanent or not
DescribedInfos ==
    {ChatInfo(u, <<100>>, p, a, <<>>) : u \in {ID1, ID2}, p \in BOOLEAN, a \in BOOLEAN}

\* no description and no users: the id is drawn
AnonymousInfos == {ChatInfo(ID1, <<>>, FALSE, FALSE, <<>>)}

ChatInfos == DialogInfos \cup DescribedInfos \cup AnonymousInfos

DIALOG == chat_id_of[<<>>, SortIds({ID1, ID2}), U64(7)]

DESCRIBED == chat_id_of[<<100>>, <<>>, U64(7)]

ChatRefs == {[user_id |-> u, chat_id |-> c] : u \in Ids, c \in {DIALOG, DESCRIBED, U64(7)}}

NextChat ==
    \/ Tick
    \/ \E t \in SeqSlots : Send(t)
    \/ \E s \in 1..Len(streams) : StreamReplay(s)
    \/ \E s \in 1..Len(streams) : StreamForward(s)
    \/ \E s \in 1..Len(streams) : StreamEnd(s)
    \/ \E t \in SeqSlots, info \in ChatInfos, rnd \in new_chat_id(RandomDraws),
          io \in IoAny :
          CreateChatStart(t, SeqSlots, MaxChatCalls, info, rnd, io)
    \/ \E t \in SeqSlots, io \in IoAny : CreateChatWrite(t, io)
    \/ \E t \in SeqSlots : CreateChatFinish(t)
    \/ \E t \in SeqSlots, r \in ChatRefs, io \in IoAny :
          EnterChatStart(t, SeqSlots, MaxChatCalls, r, io)
    \/ \E t \in SeqSlots : EnterChatFinish(t)
    \/ \E t \in SeqSlots, r \in ChatRefs, io \in IoAny :
          LeaveChatStart(t, SeqSlots, MaxChatCalls, r, io)
    \/ \E t \in SeqSlots, io \in IoAny : LeaveChatClose(t, io)
    \/ \E t \in SeqSlots : LeaveChatFinish(t)
    \/ \E t \in SeqSlots, u \in {ID1, ID3}, io \in IoAny :
          GetChats(t, SeqSlots, MaxChatCalls, u, io)

SpecChat == InitRegistered /\ [][NextChat]_vars

(***************************************************************************)
(* Claims on the chat scenario                                             *)
(***************************************************************************)
\* C4: once a leave_chat that takes the last user out of a chat that is not
\* permanent has returned, with no storage error, read_chat finds no chat and
\* the chat has no posts in storage.
C4_EmptyChatRemoved ==
    [][Returned("leave_chat") /\ ret'.status = "Ok" /\ ret'.val.left
          /\ ~ret'.val.chat.permanent /\ ret'.val.chat.users = <<>>
          /\ ret'.val.removed
       => /\ read_chat(db', ret'.req.chat_id) = None
          /\ chat_posts_count(db', ret'.req.chat_id) = 0]_vars

\* the messages stream s has handed to its client
Delivered(s) == [k \in 1..Len(streams[s].delivered) |-> streams[s].delivered[k].msg]

ChatsStreams == {s \in 1..Len(streams) : streams[s].kind = "chats"}

\* C8: no UpdateChats delivered on U's get_chats stream, snapshot or delta,
\* lists in `updated` a chat with an empty description whose users lack U.
C8_ChatVisibility ==
    \A s \in ChatsStreams : \A m \in Range(Delivered(s)) : \A c \in Range(m.updated) :
        c.description = <<>> => streams[s].user_id \in Range(c.users)

\* a get_chats stream has handed its subscriber a chat, and a chat was kept
\* from that subscriber
C8_Witness ==
    \E s \in ChatsStreams :
        /\ streams[s].user_id \in hist.skipped
        /\ \E m \in Range(Delivered(s)) : m.updated # <<>>

\* C9: create_chat calls with an empty description and auto_enter whose
\* member sets {user_id} \cup desired_users are equal return the same chat id,
\* and, unless a leave_chat took a user out of it, the chat stored under that
\* id holds every member.
C9_DialogIdBySet ==
    /\ \A a, b \in hist.dialogs : a.members = b.members => a.id = b.id
    /\ \A a \in hist.dialogs :
          a.id \notin hist.left =>
             /\ read_chat(db, a.id) # None
             /\ a.members \subseteq Range(read_chat(db, a.id)[1].users)

\* U1 has asked for the dialog with U2 and U2 for the dialog with U1
C9_Witness ==
    \E a, b \in hist.dialogs :
        /\ a.user_id = ID1 /\ b.user_id = ID2
        /\ a.members = {ID1, ID2} /\ b.members = {ID1, ID2}

\* C10: after create_chat(description d, auto_enter) has returned to U1 and
\* then to U2, with d not empty, all these calls got the id of d, and, unless
\* a leave_chat took a user out of it, the one chat stored under that id
\* holds every caller.
C10_DescribedChatHoldsCallers ==
    \A a \in hist.described :
        /\ a.id = chat_id_of[a.description, <<>>, U64(7)]
        /\ a.id \notin hist.left =>
              /\ read_chat(db, a.id) # None
              /\ a.user_id \in Range(read_chat(db, a.id)[1].users)

\* create_chat("d", auto_enter) has returned to U1 and to U2 and the chat
\* holds both
C10_Witness ==
    /\ \E a, b \in hist.described : a.user_id = ID1 /\ b.user_id = ID2
    /\ read_chat(db, DESCRIBED) # None
    /\ {ID1, ID2} \subseteq Range(read_chat(db, DESCRIBED)[1].users)
    /\ DESCRIBED \notin hist.left

\* a call of op with request r is accepted in this step: it returns at once
\* or goes on in a slot
Accepted(op, r) ==
    /\ ncalls' = ncalls + 1
    /\ \/ Returned(op) /\ ret'.req = r
       \/ \E t \in AllSlots :
             tasks[t].op = "idle" /\ tasks'[t].op = op /\ tasks'[t].req = r

\* C14: enter_chat(U, C) with U already in the users of the stored chat C,
\* and no storage error, leaves storage as it was, so the stored chat keeps
\* its users in their order, permanent, description and created; the call
\* goes on to broadcast that chat, and every enter_chat that gets that far
\* returns Ok.
C14_EnterChatOfMemberIsNoOp ==
    [][/\ \A r \in ChatRefs :
             /\ Accepted("enter_chat", r)
             /\ read_chat(db, r.chat_id) # None
             /\ contains(read_chat(db, r.chat_id)[1].users, r.user_id)
             /\ ~(Returned("enter_chat") /\ ret'.status = "Internal")
             => /\ db' = db
                /\ \E t \in AllSlots :
                      /\ tasks'[t].op = "enter_chat"
                      /\ tasks'[t].aux = read_chat(db, r.chat_id)[1]
       /\ Returned("enter_chat") /\ ncalls' = ncalls
             => ret'.status = "Ok" /\ db' = db]_vars

\* enter_chat has returned Ok to a user for the chat a create_chat of that
\* user had put it into, and the chat holds the user once
C14_Witness ==
    /\ ret.op = "enter_chat"
    /\ ret.status = "Ok"
    /\ \E a \in hist.dialogs \cup hist.described :
          /\ a.user_id = ret.req.user_id
          /\ a.id = ret.req.chat_id
          /\ a.id \notin hist.left
          /\ read_chat(db, a.id) = Some(ret.val)
          /\ Cardinality({i \in 1..Len(ret.val.users) :
                             ret.val.users[i] = a.user_id}) = 1

\* subscription s of chats has got notification ev: it is in the channel or
\* the task has handed it to the client
HoldsEvent(s, ev) ==
    \/ contains(streams[s].queue, ev)
    \/ \E i \in 1..Len(streams[s].delivered) :
          /\ streams[s].delivered[i].live
          /\ streams[s].delivered[i].msg = translate_chat_changed(ev)

\* C27: what a leave_chat that took the user out of the chat sends to a
\* subscriber of chats is Closed(chat_id) if the chat is left not permanent
\* and without users, Updated(chat) otherwise, and it is sent to a
\* subscriber once: not to one that has got it already.
C27_LeaveNotifiesOnce ==
    [][\A t \in SeqSlots : \A s \in 1..Len(streams) :
          /\ tasks[t].op = "leave_chat"
          /\ tasks[t].aux.left
          /\ streams'[s].queue = Append(streams[s].queue, tasks[t].ev)
          => LET chat == tasks[t].aux.chat
             IN  /\ tasks[t].ev = IF ~chat.permanent /\ chat.users = <<>>
                                  THEN Closed(tasks[t].req.chat_id)
                                  ELSE Updated(chat)
                 /\ ~HoldsEvent(s, tasks[t].ev)]_vars

\* the stored chats but for the chat of id
OtherChats(d, id) == [k \in DOMAIN d.chats \ {to_le_bytes(id)} |-> d.chats[k]]

\* C36: a create_chat that finds its chat id stored leaves every other chat
\* as it is and the found chat too, but for the caller appended to users when
\* auto_enter is set and the caller is not a member; the request's permanent
\* flag and desired_users are not taken, and the response is the stored chat.
C36_CreateOnExistingChat ==
    [][\A t \in SeqSlots :
          /\ tasks[t].op = "idle"
          /\ tasks'[t].op = "create_chat"
          /\ tasks'[t].pc = "notify"
          => LET info == tasks'[t].req
                 id == tasks'[t].aux.id
                 old == read_chat(db, id)
             IN  /\ old # None
                 /\ OtherChats(db, id) = OtherChats(db', id)
                 /\ read_chat(db', id) = Some(tasks'[t].aux)
                 /\ tasks'[t].aux =
                       [old[1] EXCEPT !.users =
                           IF info.auto_enter /\ info.user_id \notin Range(old[1].users)
                           THEN Append(@, info.user_id) ELSE @]]_vars

\* a create_chat returned a chat it found: the caller is the last of two
\* members, and the stored permanent flag is not the one of the request
C36_Witness ==
    /\ ret.op = "create_chat"
    /\ ret.status = "Ok"
    /\ ret.req.auto_enter
    /\ ret.req.permanent # ret.val.permanent
    /\ Len(ret.val.users) = 2
    /\ ret.val.users[2] = ret.req.user_id
    /\ read_chat(db, ret.val.id) = Some(ret.val)

\* C28: the update_chat of an enter_chat or leave_chat without a storage
\* error: with no chat of that id the call returns NotFound and storage is as
\* it was; with the user already in the chat (enter) or not in it (leave) the
\* handler gets the stored chat and storage is as it was; otherwise the
\* handler gets the chat with the user appended (enter) or taken out (leave),
\* and that chat is what read_chat returns afterwards; nothing else stored
\* changes.
C28_UpdateChatOutcomes ==
    [][\A r \in ChatRefs : \A op \in {"enter_chat", "leave_chat"} :
          /\ Accepted(op, r)
          /\ ~(Returned(op) /\ ret'.status = "Internal")
          => LET c == read_chat(db, r.chat_id)
                 no_change == IF op = "enter_chat"
                              THEN contains(c[1].users, r.user_id)
                              ELSE ~contains(c[1].users, r.user_id)
             IN  IF c = None
                 THEN Returned(op) /\ ret'.status = "NotFound" /\ db' = db
                 ELSE \E t \in AllSlots :
                        /\ tasks'[t].op = op
                        /\ tasks'[t].ev.tag = "Updated"
                        /\ read_chat(db', r.chat_id) = Some(tasks'[t].ev.chat)
                        /\ db'.users = db.users /\ db'.posts = db.posts
                        /\ OtherChats(db', r.chat_id) = OtherChats(db, r.chat_id)
                        /\ IF no_change
                           THEN db' = db
                           ELSE /\ tasks'[t].ev.chat # c[1]
                                /\ tasks'[t].ev.chat =
                                     [c[1] EXCEPT !.users =
                                        IF op = "enter_chat"
                                        THEN Append(@, r.user_id)
                                        ELSE SelectSeq(@, LAMBDA id : id # r.user_id)]]_vars

\* leave_chat has taken a user out of a chat that stays, and returned Ok:
\* read_chat returns the chat the handler got, without the user
C28_Witness ==
    /\ ret.op = "leave_chat"
    /\ ret.status = "Ok"
    /\ ret.val.left
    /\ ~ret.val.removed
    /\ read_chat(db, ret.req.chat_id) = Some(ret.val.chat)
    /\ ~contains(ret.val.chat.users, ret.req.user_id)

(***************************************************************************)
(* Post scenario: U1, U2 and U3 have registered and U1 has created the     *)
(* dialog with U2; U1 and U2 post into it, U3 enters it, all three         *)
(* subscribe to posts, two calls at a time; write_post may fail.           *)
(***************************************************************************)
\* calls accepted in one run of the post scenario
MaxPostCalls == 3

\* the request that created the dialog, and the Chat create_chat stored
DialogInfo == ChatInfo(ID1, <<>>, FALSE, TRUE, <<ID2>>)

DialogChat ==
    [id |-> DIALOG, permanent |-> FALSE, description |-> <<>>,
     users |-> create_chat_users(DialogInfo), created |-> 0]

\* the state after the three register calls and create_chat(DialogInfo)
InitDialog ==
    /\ db = write_chat(RegisteredDb, DIALOG, DialogChat)
    /\ online_users = Ids
    /\ listeners = NoListeners
    /\ streams = <<>>
    /\ tasks = [t \in AllSlots |-> Idle]
    /\ now = 0
    /\ ncalls = 0
    /\ ret = NoRet
    /\ hist = [NoHist EXCEPT
                 !.registered = {[user_id |-> u, created |-> 0] : u \in Ids},
                 !.sessions = [u \in Ids |-> 1],
                 !.dialogs = {[user_id |-> ID1, members |-> {ID1, ID2},
                               description |-> <<>>, id |-> DIALOG]}]

Post(id, user_id, chat_id, text) ==
    [id |-> id, user_id |-> user_id, chat_id |-> chat_id, text |-> text, created |-> 0]

\* the n-th call, if a create_post: U1 or U2 posts the n-th letter into the
\* dialog, or U1 posts it with an id already set, or U1 posts it into a chat
\* that was never created
PostRequests(n) ==
    {Post(NOT_POST_ID, u, DIALOG, <<64 + n>>) : u \in {ID1, ID2}}
    \cup {Post(U64(5), ID1, DIALOG, <<64 + n>>)}
    \cup {Post(NOT_POST_ID, ID1, U64(7), <<64 + n>>)}

NextPost ==
    \/ \E t \in ConcSlots : Send(t)
    \/ \E s \in 1..Len(streams) : StreamReplay(s)
    \/ \E s \in 1..Len(streams) : StreamForward(s)
    \/ \E s \in 1..Len(streams) : StreamEnd(s)
    \/ \E t \in ConcSlots, u \in Ids : GetPosts(t, ConcSlots, MaxPostCalls, u, "ok")
    \/ \E t \in ConcSlots, request \in PostRequests(ncalls + 1), io \in IoAny :
          CreatePostStart(t, ConcSlots, MaxPostCalls, request, io)
    \/ \E t \in ConcSlots : CreatePostNotify(t)
    \/ \E t \in ConcSlots : CreatePostFinish(t)
    \/ \E t \in ConcSlots :
          EnterChatStart(t, ConcSlots, MaxPostCalls,
                         [user_id |-> ID3, chat_id |-> DIALOG], "ok")
    \/ \E t \in ConcSlots : EnterChatFinish(t)

SpecPost == InitDialog /\ [][NextPost]_vars

(***************************************************************************)
(* Claims on the post scenario                                             *)
(***************************************************************************)
PostsStreams == {s \in 1..Len(streams) : streams[s].kind = "posts"}

\* the posts of the dialog in storage order
StoredPosts == read_chat_posts(db, DIALOG, 0, chat_posts_count(db, DIALOG))

\* where q first holds p
FirstAt(q, p) == CHOOSE i \in 1..Len(q) : q[i] = p /\ \A j \in 1..(i - 1) : q[j] # p

\* C5: on every get_posts stream the posts of the chat arrive, replay and then
\* live, in the order storage holds them, however concurrent create_post
\* calls interleave (a post delivered twice counts where it came first).
C5_StreamOrderIsStorageOrder ==
    \A s \in PostsStreams :
        \A i, j \in 1..Len(StoredPosts) :
            /\ i < j
            /\ StoredPosts[i] \in Range(Delivered(s))
            /\ StoredPosts[j] \in Range(Delivered(s))
            => FirstAt(Delivered(s), StoredPosts[i]) < FirstAt(Delivered(s), StoredPosts[j])

\* the stream has handed its client all it was sent
Quiet(s) ==
    /\ streams[s].state = "run"
    /\ streams[s].client = "open"
    /\ streams[s].existing = <<>>
    /\ streams[s].queue = <<>>

\* how many times stream s has delivered the post with this text
Times(s, text) ==
    Cardinality({k \in 1..Len(streams[s].delivered) :
                    streams[s].delivered[k].msg.text = text})

\* the streams the claim is about: subscribed for a user the fan-out of the
\* post found in the chat, and done delivering
MemberStreams(text) ==
    {s \in PostsStreams :
        /\ streams[s].user_id \in hist.posted[text].users
        /\ streams[s].user_id \in DOMAIN listeners.posts
        /\ listeners.posts[streams[s].user_id] = s
        /\ Quiet(s)}

\* the posts create_post has stored and returned for
PostedTexts == {text \in DOMAIN hist.posted :
                   hist.posted[text].returned /\ hist.posted[text].stored}

C7_NeverToNonMember ==
    \A s \in PostsStreams : \A k \in 1..Len(streams[s].delivered) :
        LET text == streams[s].delivered[k].msg.text
        IN  hist.posted[text].fanned =>
               streams[s].user_id \in hist.posted[text].users

\* C7 as amended: a user the fan-out of a post did not find in the chat never
\* receives the post live; a replay hands it to whoever is in the chat when
\* get_posts is called.
C7_NeverLiveToNonMember ==
    \A s \in PostsStreams : \A k \in 1..Len(streams[s].delivered) :
        streams[s].delivered[k].live =>
           streams[s].user_id \in hist.posted[streams[s].delivered[k].msg.text].users

\* U3, not in the dialog, held a get_posts stream when a create_post into the
\* dialog began; the post has reached a member's stream and not U3's
C7_Witness ==
    \E text \in PostedTexts : \E s, m \in PostsStreams :
        /\ streams[s].user_id = ID3
        /\ ID3 \notin hist.posted[text].users
        /\ s <= hist.posted[text].opened
        /\ listeners.posts[ID3] = s
        /\ Quiet(s)
        /\ Times(s, text) = 0
        /\ Times(m, text) = 1

\* every post the store holds, of any chat
AllStoredPosts ==
    UNION {Range(kv_pairs(db.posts[key].kv)) : key \in DOMAIN db.posts}

\* C11: every post held in storage has an id that is not 0 and the chat_id of
\* a chat that exists in storage.
C11_PostsBelongToChats ==
    \A p \in AllStoredPosts :
        /\ p.id # NOT_POST_ID
        /\ read_chat(db, p.chat_id) # None

\* stream s holds or has handed on a post of this text
Carries(s, text) ==
    \/ \E k \in 1..Len(streams[s].existing) : streams[s].existing[k].text = text
    \/ \E k \in 1..Len(streams[s].queue) : streams[s].queue[k].text = text
    \/ Times(s, text) > 0

\* C12: create_post with a post.id that is not 0 returns InvalidArgument; the
\* call changes neither storage nor any stream nor starts a fan-out, and when
\* it returns no post of its text is stored or on its way to a subscriber.
C12_SetIdIsRejected ==
    [][Returned("create_post") /\ ret'.req.id # NOT_POST_ID =>
          /\ ret'.status = "InvalidArgument"
          /\ UNCHANGED <<db, streams, tasks, listeners>>
          /\ \A p \in AllStoredPosts : p.text # ret'.req.text
          /\ \A s \in PostsStreams : ~Carries(s, ret'.req.text)]_vars

\* a create_post with id 5 was turned down while a member of its chat held a
\* subscription and the chat held a stored post
C12_Witness ==
    /\ ret.op = "create_post"
    /\ ret.status = "InvalidArgument"
    /\ ret.req.id # NOT_POST_ID
    /\ \E u \in Range(DialogChat.users) : u \in DOMAIN listeners.posts
    /\ StoredPosts # <<>>

\* stream s is the one get_posts stream its user holds
Current(s) ==
    /\ streams[s].user_id \in DOMAIN listeners[streams[s].kind]
    /\ listeners[streams[s].kind][streams[s].user_id] = s

C19_StorageFailureIsInternal ==
    \A text \in DOMAIN hist.posted :
        ~hist.posted[text].stored =>
            /\ ~hist.posted[text].returned
            /\ \A s \in PostsStreams : ~Carries(s, text)


(***************************************************************************)
(* Invitation scenario: U1, U2 and U3 have registered and U1 and U2 hold   *)
(* their dialog; U1 invites into it while U2 and U3 subscribe to           *)
(* invitations, U2 logs out and clients drop their streams, two calls at a *)
(* time; storage may fail.                                                 *)
(***************************************************************************)
\* calls accepted in one run of the invitation scenario
MaxInviteCalls == 3

\* an id no user and no chat has
UNKNOWN == U64(7)

\* U1 invites U2, U3 or a user that never registered into the dialog or into
\* a chat that does not exist
Invitations ==
    {[chat_id |-> c, from_user_id |-> ID1, to_user_id |-> u] :
        c \in {DIALOG, UNKNOWN}, u \in {ID2, ID3, UNKNOWN}}

NextInvite ==
    \/ \E t \in ConcSlots : Send(t)
    \/ \E s \in 1..Len(streams) : StreamForward(s)
    \/ \E s \in 1..Len(streams) : StreamEnd(s)
    \/ \E s \in 1..Len(streams) : ClientDisconnect(s)
    \/ \E t \in ConcSlots, u \in {ID2, ID3} :
          GetInvitations(t, ConcSlots, MaxInviteCalls, u)
    \/ \E t \in ConcSlots : LogoutStart(t, ConcSlots, MaxInviteCalls, ID2)
    \/ \E t \in ConcSlots : LogoutFinish(t)
    \/ \E t \in ConcSlots, invitation \in Invitations, io \in IoAny :
          InviteUserStart(t, ConcSlots, MaxInviteCalls, invitation, io)
    \/ \E t \in ConcSlots : InviteUserFinish(t)

SpecInvite == InitDialog /\ [][NextInvite]_vars

(***************************************************************************)
(* Claims on the invitation scenario                                       *)
(***************************************************************************)
\* C13: an invite_user call for a stored chat and a stored user who has no
\* entry in the invitations registry, no storage read failing, returns
\* NotFound ("did not subscribe") at once: it puts nothing into any stream
\* or into storage and sends nothing.
C13_InviteUnsubscribedNotFound ==
    [][\A invitation \in Invitations :
          /\ Accepted("invite_user", invitation)
          /\ read_chat(db, invitation.chat_id) # None
          /\ read_user(db, invitation.to_user_id) # None
          /\ invitation.to_user_id \notin DOMAIN listeners.invitations
          /\ ~(Returned("invite_user") /\ ret'.status = "Internal")
          => /\ Returned("invite_user")
             /\ ret'.status = "NotFound"
             /\ ret'.val = "did not subscribe to invitations"
             /\ UNCHANGED <<db, streams, tasks, listeners>>]_vars

\* U1 was told NotFound for a user who had subscribed and logged out since,
\* and whose earlier stream got nothing
C13_Witness ==
    /\ ret.op = "invite_user"
    /\ ret.status = "NotFound"
    /\ ret.val = "did not subscribe to invitations"
    /\ ret.req.to_user_id \notin DOMAIN listeners.invitations
    /\ \E s \in 1..Len(streams) :
          /\ streams[s].kind = "invitations"
          /\ streams[s].user_id = ret.req.to_user_id
          /\ streams[s].delivered = <<>>

\* C33: invite_user returns Ok only if the invitation has been handed to an
\* invitations stream of the invited user whose client is there: it is in
\* the channel of that stream or the client has got it.
C33_OkOnlyIfHandedOver ==
    [][Returned("invite_user") /\ ret'.status = "Ok"
       => \E s \in 1..Len(streams) :
             /\ streams[s].kind = "invitations"
             /\ streams[s].user_id = ret'.req.to_user_id
             /\ streams[s].client = "open"
             /\ \/ contains(streams[s].queue, ret'.req)
                \/ \E i \in 1..Len(streams[s].delivered) :
                      streams[s].delivered[i].msg = ret'.req]_vars

\* what subscription s has got: what is in its channel and what its task
\* has handed to the client
Got(s) ==
    Range(streams[s].queue) \cup
    {streams[s].delivered[i].msg : i \in 1..Len(streams[s].delivered)}

\* the invitations in channels and handed to clients, counted with copies
Copies ==
    LET RECURSIVE Sum(_)
        Sum(n) == IF n = 0 THEN 0
                  ELSE Sum(n - 1) +
                       (IF streams[n].kind = "invitations"
                        THEN Len(streams[n].queue) + Len(streams[n].delivered)
                        ELSE 0)
    IN  Sum(Len(streams))

\* C34: an invitation is only ever in the channel, or handed to the client,
\* of a get_invitations stream of its to_user_id; and a step adds at most one
\* copy of an invitation, which takes the one send of an invite_user call.
C34_InvitationToItsTargetOnly ==
    /\ [](\A s \in 1..Len(streams) :
             IF streams[s].kind = "invitations"
             THEN \A m \in Got(s) : m \in Invitations /\ m.to_user_id = streams[s].user_id
             ELSE Got(s) \cap Invitations = {})
    /\ [][/\ Copies' <= Copies + 1
          /\ Copies' > Copies
                => \E t \in ConcSlots :
                      /\ tasks[t].op = "invite_user"
                      /\ Len(tasks[t].list) = 1
                      /\ tasks'[t].list = <<>>]_vars

\* U2 and U3 have both subscribed to invitations; the client of U2 has got
\* the invitation U1 sent to U2, and the stream of U3, still open, nothing
C34_Witness ==
    \E a, b \in 1..Len(streams) :
       /\ streams[a].kind = "invitations" /\ streams[b].kind = "invitations"
       /\ streams[a].user_id = ID2 /\ streams[b].user_id = ID3
       /\ streams[b].state = "run" /\ streams[b].client = "open"
       /\ HasSender(b)
       /\ Got(b) = {}
       /\ Len(streams[a].delivered) = 1
       /\ streams[a].delivered[1].msg.to_user_id = ID2
       /\ ret.op = "invite_user" /\ ret.status = "Ok"

(***************************************************************************)
(* Long chat scenario: U1, U2 and U3 have registered, U1 and U2 hold their *)
(* dialog and U1 has posted into it LongPosts times; then one call: a      *)
(* member subscribes to posts, or U1 posts once more.                      *)
(***************************************************************************)
\* posts stored in the dialog when the scenario begins
LongPosts == 257

\* calls accepted in one run of the long chat scenario
MaxLongCalls == 1

\* the k-th post of U1, as create_post stored it; its text is k in two bytes
LongPost(k) ==
    [Post(U64(7), ID1, DIALOG, <<k % 256, k \div 256>>) EXCEPT !.created = 0]

\* storage after the three register calls, create_chat(DialogInfo) and
\* LongPosts create_post calls: write_post has put the k-th post under the
\* key (k - 1).to_le_bytes() and next_int counts the keys
LongDb ==
    LET keys == {to_le_bytes(U64(k - 1)) : k \in 1..LongPosts}
        chat_bucket == [next_int |-> LongPosts,
                        kv |-> [key \in keys |-> LongPost(key[1] + 256 * key[2] + 1)]]
    IN  [write_chat(RegisteredDb, DIALOG, DialogChat) EXCEPT
            !.posts = Put(@, to_le_bytes(DIALOG), chat_bucket)]

InitLong ==
    /\ db = LongDb
    /\ online_users = Ids
    /\ listeners = NoListeners
    /\ streams = <<>>
    /\ tasks = [t \in AllSlots |-> Idle]
    /\ now = 0
    /\ ncalls = 0
    /\ ret = NoRet
    /\ hist = [NoHist EXCEPT
                 !.registered = {[user_id |-> u, created |-> 0] : u \in Ids},
                 !.sessions = [u \in Ids |-> 1],
                 !.dialogs = {[user_id |-> ID1, members |-> {ID1, ID2},
                               description |-> <<>>, id |-> DIALOG]},
                 !.written = [k \in 1..LongPosts |-> LongPost(k)]]

NextLong ==
    \/ \E s \in 1..Len(streams) : StreamReplay(s)
    \/ \E t \in SeqSlots, u \in {ID1, ID2} :
          GetPosts(t, SeqSlots, MaxLongCalls, u, "ok")
    \/ \E t \in SeqSlots :
          CreatePostStart(t, SeqSlots, MaxLongCalls,
                          Post(NOT_POST_ID, ID1, DIALOG, <<0, 0>>), "ok")
    \/ \E t \in SeqSlots : CreatePostNotify(t)
    \/ \E t \in SeqSlots : CreatePostFinish(t)

SpecLong == InitLong /\ [][NextLong]_vars

(***************************************************************************)
(* Claims on the long chat scenario                                        *)
(***************************************************************************)
\* the posts stream s has handed over from its replay, in the order it did
Replayed(s) ==
    LET replay == SelectSeq(streams[s].delivered, LAMBDA e : ~e.live)
    IN  [k \in 1..Len(replay) |-> replay[k].msg]

\* C16: a get_posts stream of a member of the dialog hands over the stored
\* posts of the dialog in the order they were inserted, and no live post
\* before the last replayed one.
C16_ReplayInInsertionOrder ==
    \A s \in PostsStreams :
        streams[s].user_id \in Range(DialogChat.users) =>
            /\ \A i, j \in 1..Len(streams[s].delivered) :
                  i < j /\ streams[s].delivered[i].live => streams[s].delivered[j].live
            /\ Len(Replayed(s)) <= Len(hist.written)
            /\ \A k \in 1..Len(Replayed(s)) : Replayed(s)[k] = hist.written[k]

\* the posts write_post has stored into the dialog, in the order it did
WrittenTo(chat_id) == SelectSeq(hist.written, LAMBDA p : p.chat_id = chat_id)

\* C21: read_chat_posts(chat, 0, n) after n write_post calls into the chat
\* returns the n posts in the order they were written, and
\* read_chat_posts(chat, i, k) returns those at the positions i .. i+k-1.
C21_ReadInInsertionOrder ==
    LET written == WrittenTo(DIALOG)
        n == Len(written)
    IN  /\ read_chat_posts(db, DIALOG, 0, n) = written
        /\ \A i \in {0, 1, n - 2}, k \in {1, 2} :
              i >= 0 /\ i + k <= n =>
                 read_chat_posts(db, DIALOG, i, k) = SubSeq(written, i + 1, i + k)

(***************************************************************************)
(* Logout scenario: U1, U2 and U3 have registered; U1 subscribes to users  *)
(* and its client may drop the stream; U3 and a user that never registered *)
(* log out, one call at a time.                                            *)
(***************************************************************************)
\* calls accepted in one run of the logout scenario
MaxLogoutCalls == 3

LogoutIds == {ID3, UNKNOWN}

NextLogout ==
    \/ \E t \in SeqSlots : Send(t)
    \/ \E s \in 1..Len(streams) : StreamReplay(s)
    \/ \E s \in 1..Len(streams) : StreamForward(s)
    \/ \E s \in 1..Len(streams) : StreamEnd(s)
    \/ \E s \in 1..Len(streams) : ClientDisconnect(s)
    \/ \E t \in SeqSlots : GetUsers(t, SeqSlots, MaxLogoutCalls, ID1, "ok")
    \/ \E t \in SeqSlots, u \in LogoutIds :
          LogoutStart(t, SeqSlots, MaxLogoutCalls, u)
    \/ \E t \in SeqSlots : LogoutFinish(t)

SpecLogout == InitDialog /\ [][NextLogout]_vars

(***************************************************************************)
(* Claims on the logout scenario                                           *)
(***************************************************************************)
\* a step of a logout(u) that is the call next after a logout(u): the call is
\* accepted, or it returns
RepeatedLogoutStep ==
    \/ \E u \in LogoutIds :
          /\ Accepted("logout", [user_id |-> u])
          /\ ret.op = "logout" /\ ret.req.user_id = u
    \/ Returned("logout") /\ ret.op = "logout" /\ ret.req = ret'.req

\* C15 as stated: every logout returns success, also for a user that never
\* registered, and a logout(u) next after a logout(u) leaves storage, the
\* presence set and the four registries as the first left them.
C15_LogoutTwiceSameState ==
    [][/\ Returned("logout") => ret'.status = "Ok"
       /\ RepeatedLogoutStep => UNCHANGED <<db, online_users, listeners>>]_vars

\* C15 as amended: every logout returns success, also for a user that never
\* registered, and a logout(u) next after a logout(u) leaves storage, the
\* presence set and the chats, invitations and posts registries as the first
\* left them; the users registry is as the first left it, or that without
\* the entries whose channel has closed.
C15_LogoutTwiceSameButSweep ==
    [][/\ Returned("logout") => ret'.status = "Ok"
       /\ RepeatedLogoutStep =>
             /\ UNCHANGED <<db, online_users>>
             /\ \/ UNCHANGED listeners
                \/ listeners' = [listeners EXCEPT !.users = retain_open(@)]]_vars

\* a second logout in a row of a user that never registered has returned,
\* and with it the entry of a subscriber whose stream had ended is gone from
\* the users registry
C15_Witness ==
    /\ ret.op = "logout"
    /\ ret.status = "Ok"
    /\ ret.val.again
    /\ ret.req.user_id = UNKNOWN
    /\ \E s \in 1..Len(streams) :
          /\ streams[s].kind = "users"
          /\ streams[s].state = "stopped"
          /\ Len(streams[s].delivered) > 0
          /\ HasSender(s) = FALSE

\* C24: a live delta on the get_users stream of a subscriber names the user
\* the event is about and never the subscriber in its place: here every
\* event is the Offline of a user that logs out, and the subscriber never
\* does, so every live delta has offline = [X] for a user X that logs out.
C24_DeltaNamesTheSubject ==
    \A s \in 1..Len(streams) : \A i \in 1..Len(streams[s].delivered) :
        LET d == streams[s].delivered[i]
        IN  streams[s].kind = "users" /\ d.live
            => /\ d.msg.added = <<>> /\ d.msg.online = <<>>
               /\ Len(d.msg.offline) = 1
               /\ d.msg.offline[1] \in LogoutIds
               /\ d.msg.offline[1] # streams[s].user_id

\* C25: the snapshot message of a get_users call by U lists in added every
\* stored user but U, each once; the ids of those in the presence set are in
\* online, the ids of the others in offline, each once.
C25_SnapshotOfUsers ==
    [][Returned("get_users") /\ streams'[Len(streams')].existing # <<>>
       => LET m == streams'[Len(streams')].existing[1]
              stored == {u \in Range(read_all_users(db)) : u.id # ret'.req.user_id}
              ids == {u.id : u \in stored}
          IN  /\ Len(streams'[Len(streams')].existing) = 1
              /\ Range(m.added) = stored
              /\ Len(m.added) = Cardinality(stored)
              /\ Range(m.online) = ids \cap online_users
              /\ Range(m.offline) = ids \ online_users
              /\ Len(m.online) + Len(m.offline) = Cardinality(ids)]_vars

\* the client of U1 has got the snapshot of a get_users call made after U3
\* had logged out: U2 and U3 are added, U2 is online and U3 offline
C25_Witness ==
    \E s \in 1..Len(streams) : \E i \in 1..Len(streams[s].delivered) :
       LET d == streams[s].delivered[i]
       IN  /\ streams[s].kind = "users"
           /\ streams[s].user_id = ID1
           /\ ~d.live
           /\ Len(d.msg.added) = 2
           /\ d.msg.online = <<ID2>>
           /\ d.msg.offline = <<ID3>>

(***************************************************************************)
(* Fan-out scenario: U1 and U2 are in the dialog and subscribe to chats,   *)
(* their clients may drop the stream, and U1 and U3 enter the dialog, one  *)
(* call at a time.                                                         *)
(***************************************************************************)
\* calls accepted in one run of the fan-out scenario
MaxFanoutCalls == 4

FanoutRefs == {[user_id |-> u, chat_id |-> DIALOG] : u \in {ID1, ID3}}

NextFanout ==
    \/ \E t \in SeqSlots : Send(t)
    \/ \E s \in 1..Len(streams) : StreamReplay(s)
    \/ \E s \in 1..Len(streams) : StreamForward(s)
    \/ \E s \in 1..Len(streams) : StreamEnd(s)
    \/ \E s \in 1..Len(streams) : ClientDisconnect(s)
    \/ \E t \in SeqSlots, u \in {ID1, ID2} :
          GetChats(t, SeqSlots, MaxFanoutCalls, u, "ok")
    \/ \E t \in SeqSlots, r \in FanoutRefs :
          EnterChatStart(t, SeqSlots, MaxFanoutCalls, r, "ok")
    \/ \E t \in SeqSlots : EnterChatFinish(t)

SpecFanout == InitDialog /\ [][NextFanout]_vars

(***************************************************************************)
(* Claims on the fan-out scenario                                          *)
(***************************************************************************)
\* the newest notification of subscription s: the last one in its channel,
\* or with an empty channel the last one its task has handed to the client
Newest(s) ==
    LET live == SelectSeq(streams[s].delivered, LAMBDA d : d.live)
    IN  IF streams[s].queue # <<>>
        THEN Some(translate_chat_changed(streams[s].queue[Len(streams[s].queue)]))
        ELSE IF live # <<>> THEN Some(live[Len(live)].msg)
        ELSE None

\* C20: when enter_chat returns after a send of its fan-out failed on a
\* closed channel, it returns Ok, the stored chat holds the user, every
\* subscriber of chats whose channel is open has this call's Updated as its
\* newest notification, and no entry with a closed channel is left in the
\* chats registry.
C20_ClosedSubscriberDoesNotBreakFanout ==
    [][\A t \in SeqSlots :
          /\ tasks[t].op = "enter_chat"
          /\ ~tasks[t].ok
          /\ Returned("enter_chat")
          => /\ ret'.status = "Ok"
             /\ read_chat(db', ret'.req.chat_id) # None
             /\ contains(read_chat(db', ret'.req.chat_id)[1].users, ret'.req.user_id)
             /\ \A u \in DOMAIN listeners.chats :
                   ~is_closed(listeners.chats[u])
                   => Newest(listeners.chats[u]) =
                         Some(translate_chat_changed(Updated(ret'.val)))
             /\ \A u \in DOMAIN listeners'.chats :
                   ~is_closed(listeners'.chats[u])]_vars

\* enter_chat of U3 has returned Ok; the subscription of one user has ended
\* with its client gone and is no longer in the chats registry, and the
\* subscription of another user, whose newest notification before was a
\* chat without U3, has got the chat with U3
C20_Witness ==
    /\ ret.op = "enter_chat"
    /\ ret.status = "Ok"
    /\ ret.req.user_id = ID3
    /\ \E v, w \in 1..Len(streams) :
          /\ streams[v].user_id # streams[w].user_id
          /\ streams[v].state = "stopped"
          /\ streams[v].client = "gone"
          /\ ~HasSender(v)
          /\ streams[w].state = "run"
          /\ HasSender(w)
          /\ Newest(w) = Some(translate_chat_changed(Updated(ret.val)))
          /\ Len(SelectSeq(streams[w].delivered, LAMBDA d : d.live))
                + Len(streams[w].queue) = 2

\* C31: right after get_users, get_chats, get_invitations or get_posts has
\* put its channel into the registry of its kind, that registry holds no
\* channel that is closed.
C31_AttachSweepsClosed ==
    [][\A k \in {"users", "chats", "invitations", "posts"} :
          Returned("get_" \o k)
          => \A u \in DOMAIN listeners'[k] :
                listeners'[k][u] \in 1..Len(streams) => ~is_closed(listeners'[k][u])]_vars

(***************************************************************************)
(* Replacement scenario: U1 subscribes to users and to chats, more than    *)
(* once, while U3 logs out and enters the dialog; handlers overlap.  The   *)
(* runtime goes on polling every spawned task and every handler that can   *)
(* take a step.                                                            *)
(***************************************************************************)
\* calls accepted in one run of the replacement scenario
MaxReplaceCalls == 3

NextReplace ==
    \/ \E t \in ConcSlots : Send(t)
    \/ \E s \in 1..Len(streams) : StreamReplay(s)
    \/ \E s \in 1..Len(streams) : StreamForward(s)
    \/ \E s \in 1..Len(streams) : StreamEnd(s)
    \/ \E s \in 1..Len(streams) : ClientDisconnect(s)
    \/ \E t \in ConcSlots : GetUsers(t, ConcSlots, MaxReplaceCalls, ID1, "ok")
    \/ \E t \in ConcSlots : GetChats(t, ConcSlots, MaxReplaceCalls, ID1, "ok")
    \/ \E t \in ConcSlots : LogoutStart(t, ConcSlots, MaxReplaceCalls, ID3)
    \/ \E t \in ConcSlots : LogoutFinish(t)
    \/ \E t \in ConcSlots :
          EnterChatStart(t, ConcSlots, MaxReplaceCalls,
                         [user_id |-> ID3, chat_id |-> DIALOG], "ok")
    \/ \E t \in ConcSlots : EnterChatFinish(t)

\* a spawned task, ready to send the snapshot, to forward or to see the
\* channel closed, is polled; so is a handler in its fan-out
FairReplace ==
    /\ \A s \in 1..MaxReplaceCalls :
          WF_vars(StreamReplay(s) \/ StreamForward(s) \/ StreamEnd(s))
    /\ \A t \in ConcSlots :
          WF_vars(Send(t) \/ LogoutFinish(t) \/ EnterChatFinish(t))

SpecReplace == InitDialog /\ [][NextReplace]_vars /\ FairReplace

(***************************************************************************)
(* Claims on the replacement scenario                                      *)
(***************************************************************************)
\* a later streaming call of the same kind for the same user has come in
Replaced(s) ==
    /\ s \in 1..Len(streams)
    /\ \E n \in (s + 1)..Len(streams) :
          /\ streams[n].kind = streams[s].kind
          /\ streams[n].user_id = streams[s].user_id

\* C18: the entry a registry holds under a user id is a channel of a
\* subscription of that kind by that user; once get_users or get_chats has
\* come in, the entry of its user is the channel made for that call; a
\* fan-out that begins takes no channel that has been replaced; and the task
\* of every replaced channel comes to its end.
C18_SubscriptionReplaces ==
    /\ [][/\ \A k \in {"users", "chats"} : \A u \in DOMAIN listeners'[k] :
                /\ streams'[listeners'[k][u]].kind = k
                /\ streams'[listeners'[k][u]].user_id = u
          /\ Returned("get_users") =>
                listeners'.users[ret'.req.user_id] = Len(streams) + 1
          /\ Returned("get_chats") =>
                listeners'.chats[ret'.req.user_id] = Len(streams) + 1
          /\ \A t \in ConcSlots :
                tasks[t].op = "idle" /\ tasks'[t].op # "idle"
                => \A i \in 1..Len(tasks'[t].list) : ~Replaced(tasks'[t].list[i])]_vars
    /\ \A s \in 1..MaxReplaceCalls :
          Replaced(s) ~> (s \in 1..Len(streams) /\ streams[s].state = "stopped")

\* U1 has subscribed twice to one kind: the task of the first subscription
\* has ended with its client still there, the registry holds the second, and
\* the second has handed its client a notification the first never got
C18_Witness ==
    \E s \in 1..Len(streams) : \E n \in (s + 1)..Len(streams) :
       /\ streams[n].kind = streams[s].kind
       /\ streams[n].user_id = streams[s].user_id
       /\ streams[s].state = "stopped"
       /\ streams[s].client = "open"
       /\ listeners[streams[n].kind][streams[n].user_id] = n
       /\ \E i \in 1..Len(streams[n].delivered) : streams[n].delivered[i].live
       /\ \A i \in 1..Len(streams[s].delivered) : ~streams[s].delivered[i].live

(***************************************************************************)
(* Enter scenario: U1 and U2 hold their dialog and U1 subscribes to chats; *)
(* U3 and a user that never registered enter the dialog, two calls at a    *)
(* time.                                                                   *)
(***************************************************************************)
\* calls accepted in one run of the enter scenario
MaxEnterCalls == 3

EnterRefs == {[user_id |-> u, chat_id |-> DIALOG] : u \in {ID3, UNKNOWN}}

NextEnter ==
    \/ \E t \in ConcSlots : Send(t)
    \/ \E s \in 1..Len(streams) : StreamReplay(s)
    \/ \E s \in 1..Len(streams) : StreamForward(s)
    \/ \E t \in ConcSlots : GetChats(t, ConcSlots, MaxEnterCalls, ID1, "ok")
    \/ \E t \in ConcSlots, r \in EnterRefs :
          EnterChatStart(t, ConcSlots, MaxEnterCalls, r, "ok")
    \/ \E t \in ConcSlots : EnterChatFinish(t)

SpecEnter == InitDialog /\ [][NextEnter]_vars

(***************************************************************************)
(* Claims on the enter scenario                                            *)
(***************************************************************************)
\* C29: when an enter_chat into the dialog returns Ok, the stored dialog
\* holds its user, the user of every enter_chat that has done its
\* update_chat and not yet returned, and the user of the enter_chat that
\* returned Ok before it.
C29_NoLostUpdate ==
    [][Returned("enter_chat") /\ ret'.status = "Ok"
       => /\ read_chat(db', DIALOG) # None
          /\ LET users == read_chat(db', DIALOG)[1].users
             IN  /\ contains(users, ret'.req.user_id)
                 /\ \A t \in ConcSlots :
                       tasks'[t].op = "enter_chat" =>
                          contains(users, tasks'[t].req.user_id)
                 /\ ret.op = "enter_chat" /\ ret.status = "Ok" =>
                       contains(users, ret.req.user_id)]_vars

\* an enter_chat has returned Ok while the enter_chat of another user, which
\* began before that return, is still sending, and the stored dialog holds
\* both users next to U1 and U2
C29_Witness ==
    /\ ret.op = "enter_chat"
    /\ ret.status = "Ok"
    /\ \E t \in ConcSlots :
          /\ tasks[t].op = "enter_chat"
          /\ tasks[t].req.user_id # ret.req.user_id
          /\ tasks[t].list # <<>>
          /\ Range(read_chat(db, DIALOG)[1].users) =
                {ID1, ID2, ret.req.user_id, tasks[t].req.user_id}

\* the Updated messages of the chat that the client of s was handed, in order
UpdatesOf(s, chat_id) ==
    SelectSeq(streams[s].delivered,
              LAMBDA d : d.msg.updated # <<>> /\ d.msg.updated[1].id = chat_id)

\* C39: with every handler returned and every channel drained, the last
\* Updated of the dialog that the connected subscriber of chats was handed is
\* the dialog as stored, if the dialog is visible for the subscriber.
C39_ChatViewsConverge ==
    \A u \in DOMAIN listeners.chats :
       LET s == listeners.chats[u]
       IN  /\ \A t \in ConcSlots : tasks[t].op = "idle"
           /\ s \in 1..Len(streams)
           /\ streams[s].client = "open"
           /\ streams[s].state = "run"
           /\ streams[s].existing = <<>>
           /\ streams[s].queue = <<>>
           /\ UpdatesOf(s, DIALOG) # <<>>
           /\ read_chat(db, DIALOG) # None
           /\ is_chat_visible_for(read_chat(db, DIALOG)[1], u)
           => Some(UpdatesOf(s, DIALOG)[Len(UpdatesOf(s, DIALOG))].msg.updated[1])
                 = read_chat(db, DIALOG)

(***************************************************************************)
(* Removal scenario: U1 and U2 hold their dialog; users are removed from   *)
(* storage and U1 and U3 enter the dialog, two calls at a time, and        *)
(* storage may fail.                                                       *)
(***************************************************************************)
\* calls accepted in one run of the removal scenario
MaxRemoveCalls == 3

NextRemove ==
    \/ \E t \in ConcSlots, id \in {ID1, ID3, UNKNOWN}, io \in IoAny :
          RemoveUserStart(t, ConcSlots, MaxRemoveCalls, id, io)
    \/ \E t \in ConcSlots, io \in IoAny : RemoveUserFinish(t, io)
    \/ \E t \in ConcSlots, u \in {ID1, ID3} :
          EnterChatStart(t, ConcSlots, MaxRemoveCalls,
                         [user_id |-> u, chat_id |-> DIALOG], "ok")
    \/ \E t \in ConcSlots : EnterChatFinish(t)

SpecRemove == InitDialog /\ [][NextRemove]_vars

(***************************************************************************)
(* Claims on the removal scenario                                          *)
(***************************************************************************)
\* the user is in the users of a stored chat
InSomeChat(d, id) == \E c \in Range(read_all_chats(d)) : contains(c.users, id)

\* C30: when remove_user(id) returns Ok, read_user(id) returns nothing and
\* no stored chat has id in its users, unless an enter_chat put it back
\* meanwhile; and while the remove_user of a stored user that was in a chat
\* is under way and nothing else is, the user is not out of the chats with
\* its record still stored.
C30_RemoveUserPurges ==
    [][/\ Returned("remove_user") /\ ret'.status = "Ok"
          => /\ read_user(db', ret'.req.user_id) = None
             /\ \/ ~InSomeChat(db', ret'.req.user_id)
                \/ \E t \in ConcSlots : tasks[t].op = "enter_chat"
                \/ ret.op = "enter_chat"
       /\ \A t \in ConcSlots :
             /\ tasks[t].op = "idle" /\ tasks'[t].op = "remove_user"
             /\ \A o \in ConcSlots \ {t} : tasks[o].op = "idle"
             /\ InSomeChat(db, tasks'[t].req.user_id)
             /\ read_user(db, tasks'[t].req.user_id) # None
             => ~(/\ ~InSomeChat(db', tasks'[t].req.user_id)
                  /\ read_user(db', tasks'[t].req.user_id) # None)]_vars

(***************************************************************************)
(* Disconnect scenario: U1 and U2 hold their dialog and subscribe to       *)
(* chats, U3 enters the dialog, one call at a time; a client drops its     *)
(* stream only while no call is under way.                                 *)
(***************************************************************************)
\* calls accepted in one run of the disconnect scenario
MaxDropCalls == 3

NextDrop ==
    \/ \E t \in SeqSlots : Send(t)
    \/ \E s \in 1..Len(streams) : StreamReplay(s)
    \/ \E s \in 1..Len(streams) : StreamForward(s)
    \/ \E s \in 1..Len(streams) : StreamEnd(s)
    \/ \E s \in 1..Len(streams) :
          (\A t \in AllSlots : tasks[t].op = "idle") /\ ClientDisconnect(s)
    \/ \E t \in SeqSlots, u \in {ID1, ID2} :
          GetChats(t, SeqSlots, MaxDropCalls, u, "ok")
    \/ \E t \in SeqSlots :
          EnterChatStart(t, SeqSlots, MaxDropCalls,
                         [user_id |-> ID3, chat_id |-> DIALOG], "ok")
    \/ \E t \in SeqSlots : EnterChatFinish(t)

SpecDrop == InitDialog /\ [][NextDrop]_vars

(***************************************************************************)
(* Claims on the disconnect scenario                                       *)
(***************************************************************************)
\* C32: an enter_chat that began with the client of a subscriber of chats
\* gone has seen a send fail by the time it returns, and when it has
\* returned the chats registry holds no entry of a subscriber whose client
\* is gone.
C32_FirstFanoutAfterDisconnect ==
    [][\A t \in SeqSlots :
          tasks[t].op = "enter_chat" /\ Returned("enter_chat")
          => /\ (\E u \in DOMAIN listeners.chats :
                    streams[listeners.chats[u]].client = "gone") => ~tasks[t].ok
             /\ \A u \in DOMAIN listeners'.chats :
                   streams[listeners'.chats[u]].client = "open"]_vars

(***************************************************************************)
(* Race scenario: U1, U2 and U3 have registered; U1 and U2 create and      *)
(* enter the chat "d" and U1 leaves it, in handlers that run side by side, *)
(* while U3 subscribes to chats.                                           *)
(***************************************************************************)
MaxRaceCalls == 3

RaceInfos == {ChatInfo(u, <<100>>, FALSE, TRUE, <<>>) : u \in {ID1, ID2}}

NextRace ==
    \/ \E t \in ConcSlots : Send(t)
    \/ \E s \in 1..Len(streams) : StreamReplay(s)
    \/ \E s \in 1..Len(streams) : StreamForward(s)
    \/ \E t \in ConcSlots : GetChats(t, ConcSlots, MaxRaceCalls, ID3, "ok")
    \/ \E t \in ConcSlots, info \in RaceInfos :
          CreateChatStart(t, ConcSlots, MaxRaceCalls, info, U64(7), "ok")
    \/ \E t \in ConcSlots : CreateChatWrite(t, "ok")
    \/ \E t \in ConcSlots : CreateChatFinish(t)
    \/ \E t \in ConcSlots :
          EnterChatStart(t, ConcSlots, MaxRaceCalls,
                         [user_id |-> ID2, chat_id |-> DESCRIBED], "ok")
    \/ \E t \in ConcSlots : EnterChatFinish(t)
    \/ \E t \in ConcSlots :
          LeaveChatStart(t, ConcSlots, MaxRaceCalls,
                         [user_id |-> ID1, chat_id |-> DESCRIBED], "ok")
    \/ \E t \in ConcSlots : LeaveChatClose(t, "ok")
    \/ \E t \in ConcSlots : LeaveChatFinish(t)

SpecRace == InitRegistered /\ [][NextRace]_vars

(***************************************************************************)
(* Claims on the race scenario                                             *)
(***************************************************************************)
\* C37: a caller whose create_chat with auto_enter returned Ok for a chat
\* that nobody has left is among the users of the one stored chat of that
\* id, whatever other create_chat ran at the same time.
C37_ConcurrentCreatorsBothStay ==
    \A m \in hist.described :
       m.id \notin hist.left
       => /\ read_chat(db, m.id) # None
          /\ m.user_id \in Range(read_chat(db, m.id)[1].users)

\* C38: when leave_chat calls remove_chat and sends Closed, the chat as
\* stored has no users.
C38_RemovedOnlyWhileEmpty ==
    [][\A t \in ConcSlots :
          /\ tasks[t].op = "leave_chat"
          /\ tasks[t].pc = "updated"
          /\ tasks'[t].pc = "final"
          /\ tasks'[t].ev.tag = "Closed"
          => \/ read_chat(db, tasks[t].req.chat_id) = None
             \/ read_chat(db, tasks[t].req.chat_id)[1].users = <<>>]_vars

(***************************************************************************)
(* Stall scenario: U1 and U2 hold their dialog and subscribe to chats; a   *)
(* client may stop reading its stream while U3 enters the dialog again and *)
(* again.                                                                  *)
(***************************************************************************)
MaxStallCalls == 7

NextStall ==
    \/ \E t \in SeqSlots : Send(t)
    \/ \E s \in 1..Len(streams) : StreamReplay(s)
    \/ \E s \in 1..Len(streams) : StreamForward(s)
    \/ \E s \in 1..Len(streams) : ClientStall(s)
    \/ \E t \in SeqSlots, u \in {ID1, ID2} :
          ~(\E s \in 1..Len(streams) : streams[s].user_id = u)
          /\ GetChats(t, SeqSlots, MaxStallCalls, u, "ok")
    \/ \E t \in SeqSlots :
          EnterChatStart(t, SeqSlots, MaxStallCalls,
                         [user_id |-> ID3, chat_id |-> DIALOG], "ok")
    \/ \E t \in SeqSlots : EnterChatFinish(t)

\* the runtime polls a spawned task that can go on, and a handler that can
FairStall ==
    /\ \A s \in 1..2 : WF_vars(StreamReplay(s) \/ StreamForward(s))
    /\ \A t \in SeqSlots : WF_vars(Send(t) \/ EnterChatFinish(t))

SpecStall == InitDialog /\ [][NextStall]_vars /\ FairStall

(***************************************************************************)
(* Claims on the stall scenario                                            *)
(***************************************************************************)
\* C40: an enter_chat that has begun returns, whether or not the client of a
\* subscriber has stopped reading its stream.
C40_HandlerReturns ==
    \A t \in SeqSlots : (tasks[t].op = "enter_chat") ~> (tasks[t].op = "idle")

(***************************************************************************)
(* Identity scenario: the identity functions, called on their own with     *)
(* names, descriptions and member lists from small sets.                   *)
(***************************************************************************)
\* calls made in one run of the identity scenario
MaxIdCalls == 4

\* "", "U1", and three names of eight characters: "270qh3f2", "yuzutjxp"
\* and "L^ m3-<7"
IdNames ==
    {<<>>, <<85, 49>>,
     <<50, 55, 48, 113, 104, 51, 102, 50>>,
     <<121, 117, 122, 117, 116, 106, 120, 112>>,
     <<76, 94, 32, 109, 51, 45, 60, 55>>}

\* UserInfo{name, short_name}: short_name is "" or "u1"
IdInfos == {[name |-> n, short_name |-> sn] : n \in IdNames, sn \in {<<>>, <<117, 49>>}}

\* the ids of the users whose short_name is empty and whose name is not
IdMembers == {get_user_id([name |-> n, short_name |-> <<>>]) : n \in IdNames \ {<<>>}}

\* the member lists create_chat passes on: sorted, of up to two members
IdMemberLists == {SortIds(S) : S \in {T \in SUBSET IdMembers : Cardinality(T) <= 2}}

\* a call of an identity function: the response holds its input and result
IdCall(op, req, val) ==
    [seq |-> ret.seq + 1, op |-> op, status |-> "Ok", req |-> req, val |-> val]

GetUserId(user) ==
    /\ ncalls < MaxIdCalls
    /\ ncalls' = ncalls + 1
    /\ ret' = IdCall("get_user_id", user, get_user_id(user))
    /\ UNCHANGED <<db, online_users, listeners, streams, tasks, now, hist>>

GetChatId(description, users, rnd) ==
    /\ ncalls < MaxIdCalls
    /\ ncalls' = ncalls + 1
    /\ ret' = IdCall("get_chat_id", [description |-> description, users |-> users],
                     get_chat_id(description, users, rnd))
    /\ UNCHANGED <<db, online_users, listeners, streams, tasks, now, hist>>

NewPostId(v) ==
    /\ ncalls < MaxIdCalls
    /\ ncalls' = ncalls + 1
    /\ ret' = IdCall("new_post_id", <<>>, v)
    /\ UNCHANGED <<db, online_users, listeners, streams, tasks, now, hist>>

NewChatId(v) ==
    /\ ncalls < MaxIdCalls
    /\ ncalls' = ncalls + 1
    /\ ret' = IdCall("new_chat_id", <<>>, v)
    /\ UNCHANGED <<db, online_users, listeners, streams, tasks, now, hist>>

NextId ==
    \/ \E user \in IdInfos : GetUserId(user)
    \/ \E description \in Descriptions, users \in IdMemberLists,
          rnd \in new_chat_id(RandomDraws) : GetChatId(description, users, rnd)
    \/ \E v \in new_post_id(RandomDraws) : NewPostId(v)
    \/ \E v \in new_chat_id(RandomDraws) : NewChatId(v)

SpecId == InitEmpty /\ [][NextId]_vars

(***************************************************************************)
(* Claims on the identity scenario                                         *)
(***************************************************************************)
\* C22: get_user_id, get_chat_id, new_post_id and new_chat_id never return
\* 0, whatever their input, the UserInfo with both names empty included.
C22_IdsAreNeverZero ==
    ret.op \in {"get_user_id", "get_chat_id", "new_post_id", "new_chat_id"}
        => ret.val # ZERO64

\* C23: two get_chat_id calls with an empty description and member lists of
\* different member sets return different ids.
C23_DialogIdsDiffer ==
    [][/\ Returned("get_chat_id")
       /\ ret.op = "get_chat_id"
       /\ ret.req.description = <<>> /\ ret'.req.description = <<>>
       /\ Range(ret.req.users) # Range(ret'.req.users)
       /\ ret.req.users # <<>> /\ ret'.req.users # <<>>
       => ret'.val # ret.val]_vars

==========================================================================
